---- MODULE Spec2Model ----
(***************************************************************************)
(* Home Credit risk dashboard (Streamlit): the Home page with its file     *)
(* uploader, the memoized loader utils/load_data.py, and the five analysis *)
(* pages.  Each page is a script that Streamlit runs top to bottom on      *)
(* every render: load -> derive columns -> KPIs -> sample -> charts.       *)
(*                                                                         *)
(* Numbers.  A pandas float is modelled exactly as a record                *)
(*   [k |-> "num", n |-> numerator, d |-> denominator]   (a rational),     *)
(*   [k |-> "nan"], [k |-> "inf", n |-> +1 / -1]                           *)
(* with IEEE-754 rules for division by zero, NaN and infinity.  Money is   *)
(* in units of 1000 (ratios and comparisons are unchanged by the unit).    *)
(***************************************************************************)
EXTENDS Integers, Sequences, FiniteSets, TLC

(* ------------------------------------------------------------------ *)
(* Bounds of the model                                                 *)
(* ------------------------------------------------------------------ *)
\* largest number of rows of a dataset file
MaxRows == 4
\* display-sample ceiling of pages 1-4 (5000 rows in the source), scaled
DisplayCeiling == 3
\* display-sample ceiling of page 5 (3000 rows in the source), scaled
CorrCeiling == 2
\* scatter / filtered sample ceiling (1000 rows in the source), scaled
ScatterCeiling == 1
\* most runs of pd.read_csv on one input that a session is followed for
MaxReads == 2

(* ------------------------------------------------------------------ *)
(* State of the session                                                *)
(* ------------------------------------------------------------------ *)
VARIABLES
    files,      \* the files: the bundled demo file and the uploadable ones
    uploaded,   \* name of the file in Home's uploader, "" when none
    cache,      \* st.cache_data memo of load_data: input -> frame
    page,       \* the page rendered last (0 = Home, 1..5)
    sel         \* page 5 sidebar selections

(* ------------------------------------------------------------------ *)
(* Floats                                                              *)
(* ------------------------------------------------------------------ *)
RECURSIVE GCD(_, _)
GCD(a, b) == IF b = 0 THEN a ELSE GCD(b, a % b)

Abs(x) == IF x < 0 THEN -x ELSE x

Num(x) == [k |-> "num", n |-> x, d |-> 1]
NaN == [k |-> "nan", n |-> 0, d |-> 1]
PosInf == [k |-> "inf", n |-> 1, d |-> 1]
NegInf == [k |-> "inf", n |-> -1, d |-> 1]

\* the rational n/d (d # 0) in lowest terms with a positive denominator
Frac(n, d) ==
    LET g == GCD(Abs(n), Abs(d))
        s == IF d < 0 THEN -1 ELSE 1
    IN [k |-> "num", n |-> (s * n) \div g, d |-> (s * d) \div g]

IsNum(x) == x.k = "num"
IsNaN(x) == x.k = "nan"
IsInf(x) == x.k = "inf"
IsFinite(x) == x.k = "num"
Sign(x) == IF x.n > 0 THEN 1 ELSE IF x.n < 0 THEN -1 ELSE 0

FNeg(x) == IF IsNaN(x) THEN NaN ELSE [x EXCEPT !.n = -x.n]

FAdd(a, b) ==
    IF IsNaN(a) \/ IsNaN(b) THEN NaN
    ELSE IF IsInf(a) /\ IsInf(b) THEN (IF a.n = b.n THEN a ELSE NaN)
    ELSE IF IsInf(a) THEN a
    ELSE IF IsInf(b) THEN b
    ELSE Frac(a.n * b.d + b.n * a.d, a.d * b.d)

FSub(a, b) == FAdd(a, FNeg(b))

FMul(a, b) ==
    IF IsNaN(a) \/ IsNaN(b) THEN NaN
    ELSE IF IsInf(a) \/ IsInf(b)
         THEN (IF Sign(a) * Sign(b) = 0 THEN NaN
               ELSE IF Sign(a) * Sign(b) > 0 THEN PosInf ELSE NegInf)
    ELSE Frac(a.n * b.n, a.d * b.d)

\* IEEE-754 division as numpy performs it on float64 columns:
\* x/0 is +-inf for x # 0, 0/0 is NaN; nothing is raised
FDiv(a, b) ==
    IF IsNaN(a) \/ IsNaN(b) THEN NaN
    ELSE IF IsInf(b) THEN (IF IsInf(a) THEN NaN ELSE Num(0))
    ELSE IF b.n = 0
         THEN (IF Sign(a) = 0 THEN NaN
               ELSE IF Sign(a) > 0 THEN PosInf ELSE NegInf)
    ELSE IF IsInf(a)
         THEN (IF Sign(a) * Sign(b) > 0 THEN PosInf ELSE NegInf)
    ELSE Frac(a.n * b.d, a.d * b.n)

\* a < b on floats; every comparison with NaN is false
FLt(a, b) ==
    IF IsNaN(a) \/ IsNaN(b) THEN FALSE
    ELSE IF IsInf(a) /\ IsInf(b) THEN a.n < b.n
    ELSE IF IsInf(a) THEN a.n < 0
    ELSE IF IsInf(b) THEN b.n > 0
    ELSE a.n * b.d < b.n * a.d

FGt(a, b) == FLt(b, a)
FLe(a, b) == ~IsNaN(a) /\ ~IsNaN(b) /\ ~FLt(b, a)
FGe(a, b) == FLe(b, a)

\* nearest integer to n/d (d > 0), ties to even, as numpy's rint
RoundHalfEven(n, d) ==
    LET q == n \div d
        r == n % d
    IN IF 2 * r < d THEN q
       ELSE IF 2 * r > d THEN q + 1
       ELSE IF q % 2 = 0 THEN q ELSE q + 1

\* Series.round(1): x*10, rint, /10.  For x = +-days/365 the product is
\* never within 0.006 of a tie, so the float result is the exact one.
Round1(x) ==
    IF ~IsNum(x) THEN x ELSE Frac(RoundHalfEven(10 * x.n, x.d), 10)

(* ------------------------------------------------------------------ *)
(* Series (sequences of floats)                                        *)
(* ------------------------------------------------------------------ *)
RECURSIVE FSum(_)
FSum(s) == IF Len(s) = 0 THEN Num(0) ELSE FAdd(Head(s), FSum(Tail(s)))

DropNa(s) == SelectSeq(s, LAMBDA x : ~IsNaN(x))

\* Series.mean(): NaN cells are skipped, infinities are not; the mean of
\* no value at all is NaN
Mean(s) ==
    LET v == DropNa(s)
    IN IF Len(v) = 0 THEN NaN ELSE FDiv(FSum(v), Num(Len(v)))

\* mean of a boolean mask, (mask).mean()
MaskMean(m) ==
    IF Len(m) = 0 THEN NaN
    ELSE Frac(Cardinality({i \in 1..Len(m) : m[i]}), Len(m))

\* x * 100
Pct(x) == FMul(x, Num(100))

(* ------------------------------------------------------------------ *)
(* Columns, rows, frames                                               *)
(* ------------------------------------------------------------------ *)
\* a missing value of a text column
NaCat == "<NaN>"

RequiredCols == {"DAYS_BIRTH", "TARGET"}

RawCols ==
    {"SK_ID_CURR", "TARGET", "DAYS_BIRTH", "DAYS_EMPLOYED",
     "AMT_INCOME_TOTAL", "AMT_CREDIT", "AMT_ANNUITY", "AMT_GOODS_PRICE",
     "CODE_GENDER", "NAME_EDUCATION_TYPE", "NAME_FAMILY_STATUS",
     "NAME_HOUSING_TYPE", "OCCUPATION_TYPE", "CNT_CHILDREN",
     "CNT_FAM_MEMBERS"}

TextCols ==
    {"CODE_GENDER", "NAME_EDUCATION_TYPE", "NAME_FAMILY_STATUS",
     "NAME_HOUSING_TYPE", "OCCUPATION_TYPE"}

Row(target, birth, employed, income, credit, annuity, goods, gender, education, family, housing, occupation, children, members) ==
    [c \in RawCols |->
        CASE c = "SK_ID_CURR" -> Num(0)
          [] c = "TARGET" -> target
          [] c = "DAYS_BIRTH" -> birth
          [] c = "DAYS_EMPLOYED" -> employed
          [] c = "AMT_INCOME_TOTAL" -> income
          [] c = "AMT_CREDIT" -> credit
          [] c = "AMT_ANNUITY" -> annuity
          [] c = "AMT_GOODS_PRICE" -> goods
          [] c = "CODE_GENDER" -> gender
          [] c = "NAME_EDUCATION_TYPE" -> education
          [] c = "NAME_FAMILY_STATUS" -> family
          [] c = "NAME_HOUSING_TYPE" -> housing
          [] c = "OCCUPATION_TYPE" -> occupation
          [] c = "CNT_CHILDREN" -> children
          [] c = "CNT_FAM_MEMBERS" -> members]

\* the applicant records a dataset file is made of
Applicants ==
    << Row(Num(0), Num(-14600), Num(-3650), Num(50), Num(100), Num(10),
           Num(90), "F", "Higher education", "Married",
           "House / apartment", "Managers", Num(0), Num(2)),
       Row(Num(1), Num(-9000), Num(400), Num(0), Num(10), Num(5),
           Num(10), "M", "Secondary / secondary special",
           "Single / not married", "With parents", NaCat, Num(1), Num(2)),
       Row(Num(1), Num(-10950), Num(-730), Num(100), Num(600), Num(50),
           Num(500), "M", "Higher education", "Married",
           "House / apartment", "Laborers", Num(2), Num(4)),
       Row(Num(0), Num(-18250), Num(5), Num(0), Num(0), NaN,
           NaN, "F", "Secondary / secondary special", "Civil marriage",
           "With parents", "Laborers", Num(0), Num(2)),
       Row(Num(0), Num(-12000), NaN, Num(100), Num(500), Num(40),
           Num(450), "M", NaCat, "Married",
           "House / apartment", NaCat, Num(1), Num(3)),
       Row(Num(1), Num(-7300), Num(-10), Num(50), Num(50), Num(20),
           Num(50), "F", "Higher education", "Single / not married",
           "Rented apartment", "Managers", Num(0), Num(1)) >>

\* groups of columns a source file may lack
DropGroups ==
    { {},
      {"DAYS_EMPLOYED"},
      {"AMT_ANNUITY", "AMT_GOODS_PRICE"},
      {"CODE_GENDER", "NAME_EDUCATION_TYPE", "NAME_FAMILY_STATUS",
       "NAME_HOUSING_TYPE", "OCCUPATION_TYPE"},
      {"CNT_CHILDREN", "CNT_FAM_MEMBERS"},
      {"TARGET"} }

\* which applicants a file holds, in file order (each at most once)
Shapes ==
    UNION { { s \in [1..n -> 1..Len(Applicants)] :
                \A i \in 1..n : \A j \in 1..n : i < j => s[i] < s[j] } :
            n \in 1..MaxRows }

\* the frame pd.read_csv builds: header row -> columns, RangeIndex 0..n-1
MakeFrame(shape, cols) ==
    [cols |-> cols,
     rows |-> [i \in 1..Len(shape) |->
                 [ix |-> i - 1,
                  c |-> [col \in cols |->
                           IF col = "SK_ID_CURR" THEN Num(100000 + i)
                           ELSE Applicants[shape[i]][col]]]]]

EmptyFrame == [cols |-> {}, rows |-> << >>]

NRows(f) == Len(f.rows)

\* df[name] as a series
Col(f, name) == [i \in 1..NRows(f) |-> f.rows[i].c[name]]

\* df[name] = series (attach or overwrite a column)
SetCol(f, name, series) ==
    [cols |-> f.cols \cup {name},
     rows |-> [i \in 1..NRows(f) |->
                 [ix |-> f.rows[i].ix,
                  c |-> [col \in f.cols \cup {name} |->
                           IF col = name THEN series[i]
                           ELSE f.rows[i].c[col]]]]]

\* df[col] > t, df[col] <= t, df[col] < t, df[col] == v: boolean series
ColGt(f, col, t) == [i \in 1..NRows(f) |-> FGt(f.rows[i].c[col], t)]

ColLe(f, col, t) == [i \in 1..NRows(f) |-> FLe(f.rows[i].c[col], t)]

ColLt(f, col, t) == [i \in 1..NRows(f) |-> FLt(f.rows[i].c[col], t)]

ColEq(f, col, v) == [i \in 1..NRows(f) |-> f.rows[i].c[col] = v]

\* ~mask
MaskNot(mask) == [i \in 1..Len(mask) |-> ~mask[i]]

\* df[mask]: the rows where the mask is True, index labels kept
Where(f, mask) ==
    LET keep == SelectSeq([i \in 1..NRows(f) |-> i], LAMBDA i : mask[i])
    IN [cols |-> f.cols, rows |-> [j \in 1..Len(keep) |-> f.rows[keep[j]]]]

\* the index labels of a frame, in order
Index(f) == [i \in 1..NRows(f) |-> f.rows[i].ix]

\* set of the elements of a sequence
Range(s) == {s[i] : i \in 1..Len(s)}

(* ------------------------------------------------------------------ *)
(* More statistics                                                     *)
(* ------------------------------------------------------------------ *)
\* the values of a series without NaN in ascending order: the value at
\* position k is the one that k - 1 others precede (equal values in series
\* order)
Ranks(s) ==
    LET Precedes(j, i) == FLt(s[j], s[i]) \/ (s[j] = s[i] /\ j < i)
    IN [i \in 1..Len(s) |->
           1 + Cardinality({j \in 1..Len(s) : Precedes(j, i)})] \o << >>

Arrange(s, rank) ==
    [k \in 1..Len(s) |-> s[CHOOSE i \in 1..Len(s) : rank[i] = k]] \o << >>

SortAsc(s) == Arrange(s, Ranks(s))

\* Series.median(): NaN skipped; the middle value, or the mean of the two
\* middle values
Median(s) ==
    LET v == SortAsc(DropNa(s))
        n == Len(v)
    IN IF n = 0 THEN NaN
       ELSE IF n % 2 = 1 THEN v[(n + 1) \div 2]
       ELSE FDiv(FAdd(v[n \div 2], v[n \div 2 + 1]), Num(2))

\* Series.corr(other) / one cell of DataFrame.corr(): Pearson's r over the
\* rows where both values are present.  r = cov / sqrt(vx * vy) is kept as
\* its three exact ingredients (each scaled by n^2); 0/0 (no variance, or
\* fewer than two complete rows) is NaN and raises nothing.
Corr(sx, sy) ==
    LET ok == SelectSeq([i \in 1..Len(sx) |-> i],
                        LAMBDA i : ~IsNaN(sx[i]) /\ ~IsNaN(sy[i]))
        n == Len(ok)
        xs == [j \in 1..n |-> sx[ok[j]]]
        ys == [j \in 1..n |-> sy[ok[j]]]
        sumx == FSum(xs)
        sumy == FSum(ys)
        sxy == FSum([j \in 1..n |-> FMul(xs[j], ys[j])])
        sxx == FSum([j \in 1..n |-> FMul(xs[j], xs[j])])
        syy == FSum([j \in 1..n |-> FMul(ys[j], ys[j])])
        cov == FSub(FMul(Num(n), sxy), FMul(sumx, sumy))
        vx == FSub(FMul(Num(n), sxx), FMul(sumx, sumx))
        vy == FSub(FMul(Num(n), syy), FMul(sumy, sumy))
    IN IF n = 0 \/ ~IsNum(cov) \/ ~IsNum(vx) \/ ~IsNum(vy) THEN NaN
       ELSE IF vx.n = 0 \/ vy.n = 0 THEN NaN
       ELSE [k |-> "corr", cov |-> cov, vx |-> vx, vy |-> vy]

\* Series.quantile(qn/qd), linear interpolation between the two order
\* statistics around position (n-1)*q; NaN skipped
Quantile(s, qn, qd) ==
    LET v == SortAsc(DropNa(s))
        n == Len(v)
        lo == ((n - 1) * qn) \div qd
        rem == ((n - 1) * qn) % qd
        hi == IF lo + 2 <= n THEN lo + 2 ELSE n
    IN IF n = 0 THEN NaN
       ELSE FAdd(v[lo + 1],
                 FMul(FSub(v[hi], v[lo + 1]), Frac(rem, qd)))

\* df[df[col] <= bound]
AtMost(f, col, bound) == Where(f, ColLe(f, col, bound))

\* the distinct non-missing values of a text column
Categories(f, col) == {f.rows[i].c[col] : i \in 1..NRows(f)} \ {NaCat}

\* df.groupby(col)['TARGET'].sum() / len(df) * 100: each category's
\* defaults as a share of all rows
GroupShare(f, col) ==
    [g \in Categories(f, col) |->
        Pct(FDiv(FSum(DropNa(Col(Where(f, ColEq(f, col, g)), "TARGET"))),
                 Num(NRows(f))))]

\* df.groupby(col)['TARGET'].mean() * 100: one rate per category that has
\* rows; rows whose category is missing belong to no group
GroupRate(f, col) ==
    [g \in Categories(f, col) |->
        Pct(Mean(Col(Where(f, ColEq(f, col, g)), "TARGET")))]

RECURSIVE SetToSeq(_)
SetToSeq(S) ==
    IF S = {} THEN << >>
    ELSE LET x == CHOOSE y \in S : TRUE IN << x >> \o SetToSeq(S \ {x})

\* the values of a grouped series, as a series
Values(g) == LET ks == SetToSeq(DOMAIN g) IN [i \in 1..Len(ks) |-> g[ks[i]]]

\* pd.Series(): the empty series
EmptySeries == [g \in {} |-> NaN]

(* ------------------------------------------------------------------ *)
(* Sampler                                                             *)
(* ------------------------------------------------------------------ *)
\* np.random.RandomState(seed).permutation(n): the Fisher-Yates shuffle
\* of 0..n-1 driven by MT19937 seeded with `seed`, tabulated for n <= 6
RandomStatePermutation(seed, n) ==
    CASE seed = 42 ->
           << << 0 >>, << 1, 0 >>, << 0, 1, 2 >>, << 1, 3, 0, 2 >>,
              << 1, 4, 2, 0, 3 >>, << 0, 1, 5, 2, 4, 3 >> >>[n]
      [] seed = 1 ->
           << << 0 >>, << 0, 1 >>, << 0, 2, 1 >>, << 3, 2, 0, 1 >>,
              << 2, 1, 4, 0, 3 >>, << 2, 1, 4, 0, 3, 5 >> >>[n]
      [] seed = 2 ->
           << << 0 >>, << 1, 0 >>, << 2, 1, 0 >>, << 2, 3, 1, 0 >>,
              << 2, 4, 1, 3, 0 >>, << 4, 1, 3, 2, 5, 0 >> >>[n]
      [] seed = 3 ->
           << << 0 >>, << 1, 0 >>, << 1, 0, 2 >>, << 3, 1, 0, 2 >>,
              << 3, 4, 1, 0, 2 >>, << 3, 5, 4, 1, 0, 2 >> >>[n]
      [] seed = 4 ->
           << << 0 >>, << 1, 0 >>, << 1, 0, 2 >>, << 0, 1, 3, 2 >>,
              << 0, 3, 1, 4, 2 >>, << 4, 5, 3, 0, 1, 2 >> >>[n]
      [] seed = 5 ->
           << << 0 >>, << 0, 1 >>, << 0, 1, 2 >>, << 0, 1, 2, 3 >>,
              << 4, 0, 1, 2, 3 >>, << 5, 2, 4, 1, 0, 3 >> >>[n]

\* df.sample(n, replace=True, ...): a draw may hit a row already drawn
SampleWithReplacement(f, n, seed) ==
    LET p == RandomStatePermutation(seed, NRows(f))
    IN [cols |-> f.cols,
        rows |-> [i \in 1..n |-> f.rows[p[(i + 1) \div 2] + 1]]]

\* df.sample(n, random_state=seed): without replacement, the rows at the
\* first n positions of the permutation, in that order
Sample(f, n, seed) ==
    LET p == RandomStatePermutation(seed, NRows(f))
    IN [cols |-> f.cols, rows |-> [i \in 1..n |-> f.rows[p[i] + 1]]]

Min(a, b) == IF a <= b THEN a ELSE b

\* df.sample(n) without random_state draws from numpy's global generator,
\* whose state is what the script run before left behind
random_state_global == IF page = 0 THEN 42 ELSE page

\* the seed every df.sample call of the app passes: random_state=42
random_state == 42

\* sample_size = min(ceiling, len(df))
\* df.sample(sample_size, random_state=42) if len(df) > ceiling else df
SampleFor(f, ceiling) ==
    IF NRows(f) > ceiling
    THEN Sample(f, Min(ceiling, NRows(f)), random_state)
    ELSE f

(* ------------------------------------------------------------------ *)
(* The names df and df_sample and the objects they are bound to        *)
(* ------------------------------------------------------------------ *)
\* df.sample(...) if len(df) > ceiling else df: without sampling the name
\* df_sample is bound to the object df names, not to a copy of it
SampleIsDf(f, ceiling) == ~(NRows(f) > ceiling)

\* the two names after the line that binds df_sample
Bind(f, ceiling) ==
    [df |-> f,
     df_sample |-> SampleFor(f, ceiling),
     df_sample_is_df |-> SampleIsDf(f, ceiling)]

\* frame[col] = values for each column of h (column name -> series)
SetCols(f, h) ==
    [cols |-> f.cols \cup DOMAIN h,
     rows |-> [i \in 1..NRows(f) |->
                 [ix |-> f.rows[i].ix,
                  c |-> [col \in f.cols \cup DOMAIN h |->
                           IF col \in DOMAIN h THEN h[col][i]
                           ELSE f.rows[i].c[col]]]]]

\* name[col] = values, name being df or df_sample: the write lands in the
\* object the name is bound to and shows through every name bound to it
SetItem(ns, name, h) ==
    IF ns.df_sample_is_df
    THEN [ns EXCEPT !.df = SetCols(ns[name], h),
                    !.df_sample = SetCols(ns[name], h)]
    ELSE [ns EXCEPT ![name] = SetCols(ns[name], h)]

\* chart = name; chart[col] = values: no copy is taken, the helper
\* columns are written to the object the name is bound to
ChartOnName(ns, name, h) ==
    [ns |-> SetItem(ns, name, h), chart |-> SetCols(ns[name], h)]

\* chart = name.copy(); chart[col] = values: the helper columns go to the
\* new object, df and df_sample stay as they are
ChartOnCopy(ns, name, h) ==
    [ns |-> ns, chart |-> SetCols(ns[name], h)]

\* frame['TARGET'].map({0: no, 1: yes}); any other value maps to NaN
DefaultStatus(f, no, yes) ==
    [col \in {"Default_Status"} |->
        [i \in 1..NRows(f) |->
            IF f.rows[i].c["TARGET"] = Num(0) THEN no
            ELSE IF f.rows[i].c["TARGET"] = Num(1) THEN yes
            ELSE NaCat]]

\* the first draws of np.random.normal(0, 1) after np.random.seed(42), to
\* four decimals, times 10000
StandardNormal ==
    << 4967, -1383, 6477, 15230, -2342, -2341, 15792, 7674, -4695, 5426 >>

\* draw number k of np.random.normal(0, 1/inv, ...) after the seed
Normal(k, inv) == Frac(StandardNormal[k], 10000 * inv)

\* np.random.seed(42); jitter_amount = 0.2
\* EMPLOYMENT_YEARS_JITTERED = EMPLOYMENT_YEARS + normal(0, 0.2, len)
\* TARGET_JITTERED = TARGET + normal(0, 0.05, len)
JitterColumns(f) ==
    [col \in {"EMPLOYMENT_YEARS_JITTERED", "TARGET_JITTERED"} |->
        [i \in 1..NRows(f) |->
            IF col = "EMPLOYMENT_YEARS_JITTERED"
            THEN FAdd(f.rows[i].c["EMPLOYMENT_YEARS"], Normal(i, 5))
            ELSE FAdd(f.rows[i].c["TARGET"], Normal(NRows(f) + i, 20))]]

(* ------------------------------------------------------------------ *)
(* Derived columns                                                     *)
(* ------------------------------------------------------------------ *)
\* (-df[col] / 365).round(1)
YearsOf(f, col) ==
    [i \in 1..NRows(f) |-> Round1(FDiv(FNeg(f.rows[i].c[col]), Num(365)))]

\* df['AGE_YEARS'] = (-df['DAYS_BIRTH'] / 365).round(1)
WithAge(f) == SetCol(f, "AGE_YEARS", YearsOf(f, "DAYS_BIRTH"))

\* the derivation after a df.dropna(subset=['DAYS_EMPLOYED']): records
\* without an employment date are gone
WithEmploymentDropna(f) ==
    LET kept == Where(f, [i \in 1..NRows(f) |->
                            ~IsNaN(f.rows[i].c["DAYS_EMPLOYED"])])
    IN SetCol(kept, "EMPLOYMENT_YEARS",
              [i \in 1..NRows(kept) |->
                  IF FGt(kept.rows[i].c["DAYS_EMPLOYED"], Num(0)) THEN Num(0)
                  ELSE YearsOf(kept, "DAYS_EMPLOYED")[i]])

\* the derivation without its second line: a positive DAYS_EMPLOYED keeps
\* its negative year count
WithEmploymentUnfixed(f) ==
    SetCol(f, "EMPLOYMENT_YEARS", YearsOf(f, "DAYS_EMPLOYED"))

\* df['EMPLOYMENT_YEARS'] = (-df['DAYS_EMPLOYED'] / 365).round(1)
\* df.loc[df['DAYS_EMPLOYED'] > 0, 'EMPLOYMENT_YEARS'] = 0
WithEmployment(f) ==
    LET years == YearsOf(f, "DAYS_EMPLOYED")
    IN SetCol(f, "EMPLOYMENT_YEARS",
              [i \in 1..NRows(f) |->
                  IF FGt(f.rows[i].c["DAYS_EMPLOYED"], Num(0)) THEN Num(0)
                  ELSE years[i]])

(* ------------------------------------------------------------------ *)
(* Script runs                                                         *)
(* ------------------------------------------------------------------ *)
NoKpi == [failed |-> TRUE]
NoCharts == [none |-> EmptyFrame]

\* the first column of `needed` that the frame lacks, "" when it has all
RECURSIVE FirstMissing(_, _)
FirstMissing(f, needed) ==
    IF Len(needed) = 0 THEN ""
    ELSE IF Head(needed) \notin f.cols THEN Head(needed)
    ELSE FirstMissing(f, Tail(needed))

\* df[col] on an absent column raises KeyError and the script run stops
\* there; the page shows the traceback and nothing computed after it
Raised(stage, col, f) ==
    [status |-> "KeyError", stage |-> stage, errcol |-> col,
     df |-> f, df_sample |-> EmptyFrame, df_sample_is_df |-> FALSE,
     kpi |-> NoKpi, charts |-> NoCharts]

\* the run reached the end of the script: ns holds what df and df_sample
\* name by then
Done(ns, k, ch) ==
    [status |-> "ok", stage |-> "done", errcol |-> "",
     df |-> ns.df, df_sample |-> ns.df_sample,
     df_sample_is_df |-> ns.df_sample_is_df, kpi |-> k, charts |-> ch]

\* df[df['TARGET'] == v]
TargetIs(f, v) == Where(f, ColEq(f, "TARGET", Num(v)))

\* income_q99 = df['AMT_INCOME_TOTAL'].quantile(0.99)
\* income_sample = df_sample[df_sample['AMT_INCOME_TOTAL'] <= income_q99]
\* the clip with < in place of <=
ClipByStrict(sample, full, col, qn, qd) ==
    Where(sample, ColLt(sample, col, Quantile(Col(full, col), qn, qd)))

ClipBy(sample, full, col, qn, qd) ==
    AtMost(sample, col, Quantile(Col(full, col), qn, qd))

(* ------------------------------------------------------------------ *)
(* Page 2: Target & Risk Segmentation                                  *)
(* ------------------------------------------------------------------ *)
\* df.groupby(col)['TARGET'].mean() * 100 if col in df.columns
\* else pd.Series()
SegmentRate(f, col) ==
    IF col \in f.cols THEN GroupRate(f, col) ELSE EmptySeries

Page2Kpi(df, sample) ==
    LET defaulters == TargetIs(df, 1)
        by_gender == SegmentRate(df, "CODE_GENDER")
        by_education == SegmentRate(df, "NAME_EDUCATION_TYPE")
        by_family == SegmentRate(df, "NAME_FAMILY_STATUS")
        by_housing == SegmentRate(df, "NAME_HOUSING_TYPE")
    IN [total_defaults |-> FSum(DropNa(Col(df, "TARGET"))),
        default_rate |-> Pct(Mean(Col(df, "TARGET"))),
        default_rate_gender |-> by_gender,
        default_rate_education |-> by_education,
        default_rate_family |-> by_family,
        default_rate_housing |-> by_housing,
        tile_gender |-> Mean(Values(by_gender)),
        tile_education |-> Mean(Values(by_education)),
        tile_family |-> Mean(Values(by_family)),
        tile_housing |-> Mean(Values(by_housing)),
        avg_income_default |-> Mean(Col(defaulters, "AMT_INCOME_TOTAL")),
        avg_credit_default |-> Mean(Col(defaulters, "AMT_CREDIT")),
        avg_annuity_default |->
            IF "AMT_ANNUITY" \in df.cols
            THEN Mean(Col(defaulters, "AMT_ANNUITY")) ELSE Num(0),
        avg_employment_default |-> Mean(Col(defaulters, "EMPLOYMENT_YEARS"))]

\* the order groupby gives the category labels: sorted as text
LabelOrder ==
    << "Civil marriage", "F", "Higher education", "House / apartment",
       "Laborers", "M", "Managers", "Married", "Rented apartment",
       "Secondary / secondary special", "Single / not married",
       "With parents" >>

\* the first of the labels in S, in the order of the grouped index
FirstLabel(S) ==
    LET i == CHOOSE i \in 1..Len(LabelOrder) :
                 /\ LabelOrder[i] \in S
                 /\ \A j \in 1..(i - 1) : LabelOrder[j] \notin S
    IN LabelOrder[i]

\* s.index[0]: the first label of a grouped series
IdxFirst(g) == FirstLabel(DOMAIN g)

\* s.idxmax(): the first label holding the largest value, NaN skipped
IdxMax(g) ==
    FirstLabel({k \in DOMAIN g :
                   /\ ~IsNaN(g[k])
                   /\ \A j \in DOMAIN g : IsNaN(g[j]) \/ FLe(g[j], g[k])})

\* s.idxmin(): the first label holding the smallest value, NaN skipped
IdxMin(g) ==
    FirstLabel({k \in DOMAIN g :
                   /\ ~IsNaN(g[k])
                   /\ \A j \in DOMAIN g : IsNaN(g[j]) \/ FLe(g[k], g[j])})

\* the three groupings the insight lines are written for
InsightSeries(k) ==
    ("Education" :> k.default_rate_education)
    @@ ("Family Status" :> k.default_rate_family)
    @@ ("Housing Type" :> k.default_rate_housing)

\* "Highest Risk Segments": one line per grouping that is not empty, the
\* idxmax() label with max() formatted :.1f
HighestRiskSegments(k) ==
    LET s == InsightSeries(k)
    IN [l \in {l \in DOMAIN s : DOMAIN s[l] # {}} |->
           [segment |-> IdxMax(s[l]), rate |-> Round1(s[l][IdxMax(s[l])])]]

\* "Lowest Risk Segments": the idxmin() label with min() formatted :.1f
LowestRiskSegments(k) ==
    LET s == InsightSeries(k)
    IN [l \in {l \in DOMAIN s : DOMAIN s[l] # {}} |->
           [segment |-> IdxMin(s[l]), rate |-> Round1(s[l][IdxMin(s[l])])]]

Page2(raw) ==
    IF "DAYS_BIRTH" \notin raw.cols THEN Raised("derive", "DAYS_BIRTH", raw)
    ELSE IF "DAYS_EMPLOYED" \notin raw.cols
         THEN Raised("derive", "DAYS_EMPLOYED", WithAge(raw))
    ELSE LET df1 == WithEmployment(WithAge(raw))
             ns == Bind(df1, DisplayCeiling)
             sample == ns.df_sample
             miss == FirstMissing(df1, << "TARGET", "AMT_INCOME_TOTAL",
                                         "AMT_CREDIT" >>)
             \* df_sample[mask] is a new object; it is copied and the
             \* copy gets Default_Status
             Labelled(f, no, yes) == SetCols(f, DefaultStatus(f, no, yes))
         IN IF miss # "" THEN Raised("kpi", miss, df1)
            ELSE Done(ns, Page2Kpi(df1, sample),
                      [highest_risk |->
                           HighestRiskSegments(Page2Kpi(df1, sample)),
                       lowest_risk |->
                           LowestRiskSegments(Page2Kpi(df1, sample)),
                       income_filtered |->
                           Labelled(ClipBy(sample, df1, "AMT_INCOME_TOTAL",
                                           99, 100), "No", "Yes"),
                       credit_filtered |->
                           Labelled(ClipBy(sample, df1, "AMT_CREDIT",
                                           99, 100), "No", "Yes"),
                       employment_filtered |->
                           Labelled(AtMost(sample, "EMPLOYMENT_YEARS",
                                           Num(50)), "Repaid", "Defaulted")])

(* ------------------------------------------------------------------ *)
(* Page 1: Overview & Data Quality                                     *)
(* ------------------------------------------------------------------ *)
\* df.isnull() of one cell
IsNull(f, i, col) ==
    IF col \in TextCols THEN f.rows[i].c[col] = NaCat
    ELSE IsNaN(f.rows[i].c[col])

\* df.isnull().sum()[col]
MissingCount(f, col) == Cardinality({i \in 1..NRows(f) : IsNull(f, i, col)})

\* Series.round(2)
Round2(x) ==
    IF ~IsNum(x) THEN x ELSE Frac(RoundHalfEven(100 * x.n, x.d), 100)

\* sort_values('Missing_Percentage', ascending=False); the source's sort
\* leaves the order of equal percentages open, the model takes one
RECURSIVE InsertByPercentage(_, _)
InsertByPercentage(x, s) ==
    IF Len(s) = 0 THEN << x >>
    ELSE IF FGe(x.Missing_Percentage, Head(s).Missing_Percentage)
         THEN << x >> \o s
    ELSE << Head(s) >> \o InsertByPercentage(x, Tail(s))

RECURSIVE SortByPercentage(_)
SortByPercentage(s) ==
    IF Len(s) = 0 THEN << >>
    ELSE InsertByPercentage(Head(s), SortByPercentage(Tail(s)))

\* missing_data = df.isnull().sum().reset_index(), with its percentage
\* column, before the rows without a missing value are filtered out
MissingTable(df) ==
    LET cs == SetToSeq(df.cols)
    IN [j \in 1..Len(cs) |->
           [Feature |-> cs[j],
            Missing_Count |-> MissingCount(df, cs[j]),
            Missing_Percentage |->
                Round2(FMul(FDiv(Num(MissingCount(df, cs[j])), Num(NRows(df))),
                            Num(100)))]]

\* the report with every column in it
MissingReportUnfiltered(df) == SortByPercentage(MissingTable(df))

\* missing_data[missing_data['Missing_Count'] > 0]
\*     .sort_values('Missing_Percentage', ascending=False)
MissingReport(df) ==
    SortByPercentage(SelectSeq(MissingTable(df),
                               LAMBDA r : r.Missing_Count > 0))

Page1Kpi(df) ==
    LET cs == SetToSeq(df.cols)
        target == Mean(Col(df, "TARGET"))
    IN [total_applicants |->
            Num(Cardinality(Range(DropNa(Col(df, "SK_ID_CURR"))))),
        default_rate |-> Pct(target),
        repaid_rate |-> Pct(FSub(Num(1), target)),
        total_features |-> Num(Cardinality(df.cols)),
        avg_missing |->
            Pct(Mean([j \in 1..Len(cs) |->
                        Frac(MissingCount(df, cs[j]), NRows(df))])),
        num_features |-> Num(Cardinality(df.cols \ TextCols)),
        cat_features |-> Num(Cardinality(df.cols \cap TextCols)),
        median_age |-> Median(Col(df, "AGE_YEARS")),
        median_income |-> Median(Col(df, "AMT_INCOME_TOTAL")),
        avg_credit |-> Mean(Col(df, "AMT_CREDIT"))]

Page1(raw) ==
    IF "DAYS_BIRTH" \notin raw.cols THEN Raised("derive", "DAYS_BIRTH", raw)
    ELSE LET df1 == WithAge(raw)
             miss == FirstMissing(df1, << "SK_ID_CURR", "TARGET",
                                         "AMT_INCOME_TOTAL", "AMT_CREDIT" >>)
             ns == Bind(df1, DisplayCeiling)
             sample == ns.df_sample
         IN IF miss # "" THEN Raised("kpi", miss, df1)
            ELSE Done(ns, Page1Kpi(df1),
                      [missing_data |-> MissingReport(df1),
                       income_sample |->
                           ClipBy(sample, df1, "AMT_INCOME_TOTAL", 99, 100),
                       credit_sample |->
                           ClipBy(sample, df1, "AMT_CREDIT", 99, 100)])

(* ------------------------------------------------------------------ *)
(* Page 3: Demographics & Household Profile                            *)
(* ------------------------------------------------------------------ *)
\* str.contains('Married', case=False, na=False) on the family statuses
ContainsMarried(f, col) ==
    [i \in 1..NRows(f) |->
        f.rows[i].c[col] \in {"Married", "Single / not married"}]

\* str.contains('higher', case=False, na=False) on the education levels
ContainsHigher(f, col) ==
    [i \in 1..NRows(f) |-> f.rows[i].c[col] \in {"Higher education"}]

\* df[col].value_counts(normalize=True) * 100, then .get(v, 0)
SharePct(f, col, v) ==
    LET present == Where(f, MaskNot(ColEq(f, col, NaCat)))
        hits == Where(f, ColEq(f, col, v))
    IN IF NRows(hits) = 0 THEN Num(0)
       ELSE Pct(Frac(NRows(hits), NRows(present)))

\* (mask).mean() * 100
MaskPct(mask) == Pct(MaskMean(mask))

Page3Kpi(df, sample) ==
    LET defaulters == TargetIs(df, 1)
        non_defaulters == TargetIs(df, 0)
        has(c) == c \in df.cols
        percent_married ==
            MaskPct(ContainsMarried(df, "NAME_FAMILY_STATUS"))
    IN [percent_male |->
            IF has("CODE_GENDER") THEN SharePct(df, "CODE_GENDER", "M")
            ELSE Num(0),
        percent_female |->
            IF has("CODE_GENDER") THEN SharePct(df, "CODE_GENDER", "F")
            ELSE Num(0),
        avg_age_defaulters |->
            IF has("AGE_YEARS") THEN Mean(Col(defaulters, "AGE_YEARS"))
            ELSE Num(0),
        avg_age_non_defaulters |->
            IF has("AGE_YEARS") THEN Mean(Col(non_defaulters, "AGE_YEARS"))
            ELSE Num(0),
        percent_with_children |->
            IF has("CNT_CHILDREN")
            THEN MaskPct(ColGt(df, "CNT_CHILDREN", Num(0)))
            ELSE Num(0),
        avg_family_size |->
            IF has("CNT_FAM_MEMBERS") THEN Mean(Col(df, "CNT_FAM_MEMBERS"))
            ELSE Num(0),
        percent_married |->
            IF has("NAME_FAMILY_STATUS") THEN percent_married ELSE Num(0),
        percent_single |->
            IF has("NAME_FAMILY_STATUS")
            THEN FSub(Num(100), percent_married) ELSE Num(0),
        percent_higher_ed |->
            IF has("NAME_EDUCATION_TYPE")
            THEN MaskPct(ContainsHigher(df, "NAME_EDUCATION_TYPE"))
            ELSE Num(0),
        percent_with_parents |->
            IF has("NAME_HOUSING_TYPE")
            THEN MaskPct(ColEq(df, "NAME_HOUSING_TYPE", "With parents"))
            ELSE Num(0),
        percent_working |->
            IF has("DAYS_EMPLOYED")
            THEN MaskPct(ColLt(df, "DAYS_EMPLOYED", Num(0)))
            ELSE Num(0),
        avg_employment_years |->
            IF has("EMPLOYMENT_YEARS") THEN Mean(Col(df, "EMPLOYMENT_YEARS"))
            ELSE Num(0)]

Page3(raw) ==
    IF "DAYS_BIRTH" \notin raw.cols THEN Raised("derive", "DAYS_BIRTH", raw)
    ELSE IF "DAYS_EMPLOYED" \notin raw.cols
         THEN Raised("derive", "DAYS_EMPLOYED", WithAge(raw))
    ELSE LET df1 == WithEmployment(WithAge(raw))
             ns == Bind(df1, DisplayCeiling)
             sample == ns.df_sample
             \* age_sample = df_sample.copy(); age_sample['Default_Status']
             age == ChartOnCopy(ns, "df_sample",
                                DefaultStatus(sample, "No", "Yes"))
         IN IF "TARGET" \notin df1.cols THEN Raised("kpi", "TARGET", df1)
            ELSE Done(age.ns, Page3Kpi(df1, sample),
                      [age_sample |-> age.chart])

(* ------------------------------------------------------------------ *)
(* Page 4: Financial Health & Affordability                            *)
(* ------------------------------------------------------------------ *)
\* dti_threshold = 0.4
dti_threshold == Frac(2, 5)
\* lti_threshold = 5.0
lti_threshold == Num(5)
\* (df['AMT_CREDIT'] > 1000000), money in units of 1000
HighCredit == 1000

\* df[a] / df[b], element-wise
Ratio(f, a, b) == [i \in 1..NRows(f) |-> FDiv(f.rows[i].c[a], f.rows[i].c[b])]

\* if 'AMT_ANNUITY' in df.columns: df['DTI'] = AMT_ANNUITY / AMT_INCOME_TOTAL
WithDTI(f) ==
    IF "AMT_ANNUITY" \in f.cols
    THEN SetCol(f, "DTI", Ratio(f, "AMT_ANNUITY", "AMT_INCOME_TOTAL"))
    ELSE f

\* df['LTI'] = df['AMT_CREDIT'] / df['AMT_INCOME_TOTAL']
WithLTI(f) == SetCol(f, "LTI", Ratio(f, "AMT_CREDIT", "AMT_INCOME_TOTAL"))

\* df[df[col] > t]['TARGET'].mean() * 100
RateAbove(f, col, t) ==
    Pct(Mean(Col(Where(f, ColGt(f, col, t)), "TARGET")))

\* df[df[col] <= t]['TARGET'].mean() * 100
RateAtMost(f, col, t) ==
    Pct(Mean(Col(Where(f, ColLe(f, col, t)), "TARGET")))

Page4Kpi(df, sample) ==
    LET defaulters == TargetIs(df, 1)
        non_defaulters == TargetIs(df, 0)
        has(c) == c \in df.cols
    IN [avg_income |-> Mean(Col(df, "AMT_INCOME_TOTAL")),
        median_income |-> Median(Col(df, "AMT_INCOME_TOTAL")),
        avg_credit |-> Mean(Col(df, "AMT_CREDIT")),
        avg_annuity |->
            IF has("AMT_ANNUITY") THEN Mean(Col(df, "AMT_ANNUITY"))
            ELSE Num(0),
        avg_goods_price |->
            IF has("AMT_GOODS_PRICE") THEN Mean(Col(df, "AMT_GOODS_PRICE"))
            ELSE Num(0),
        avg_dti |-> IF has("AMT_ANNUITY") THEN Mean(Col(df, "DTI")) ELSE Num(0),
        avg_lti |-> Mean(Col(df, "LTI")),
        income_gap |->
            FSub(Mean(Col(non_defaulters, "AMT_INCOME_TOTAL")),
                 Mean(Col(defaulters, "AMT_INCOME_TOTAL"))),
        credit_gap |->
            FSub(Mean(Col(non_defaulters, "AMT_CREDIT")),
                 Mean(Col(defaulters, "AMT_CREDIT"))),
        percent_high_credit |->
            MaskPct(ColGt(df, "AMT_CREDIT", Num(HighCredit))),
        high_dti_default_rate |->
            IF has("DTI") THEN RateAbove(df, "DTI", dti_threshold) ELSE Num(0),
        low_dti_default_rate |->
            IF has("DTI") THEN RateAtMost(df, "DTI", dti_threshold) ELSE Num(0),
        high_lti_default_rate |-> RateAbove(df, "LTI", lti_threshold),
        low_lti_default_rate |-> RateAtMost(df, "LTI", lti_threshold)]

\* tab5 "Statistics" read off the frame the KDE plot was drawn from
Page4StatisticsOfPlot(df, filtered_df) ==
    [income_mean |-> Mean(Col(filtered_df, "AMT_INCOME_TOTAL")),
     income_median |-> Median(Col(filtered_df, "AMT_INCOME_TOTAL")),
     credit_mean |-> Mean(Col(filtered_df, "AMT_CREDIT")),
     credit_median |-> Median(Col(filtered_df, "AMT_CREDIT")),
     correlation |-> Corr(Col(filtered_df, "AMT_INCOME_TOTAL"),
                          Col(filtered_df, "AMT_CREDIT"))]

\* tab5 "Statistics", computed right after df_sample is bound again and
\* clipped into filtered_df for the KDE plot: every one of them reads df
Page4Statistics(df, filtered_df) ==
    [income_mean |-> Mean(Col(df, "AMT_INCOME_TOTAL")),
     income_median |-> Median(Col(df, "AMT_INCOME_TOTAL")),
     credit_mean |-> Mean(Col(df, "AMT_CREDIT")),
     credit_median |-> Median(Col(df, "AMT_CREDIT")),
     correlation |-> Corr(Col(df, "AMT_INCOME_TOTAL"), Col(df, "AMT_CREDIT"))]

\* scatter_sample = df.sample(min(1000, len(df)), random_state=42)
\*                  if len(df) > 1000 else df
\* then clipped at the 0.95 quantiles of income and credit of df
\* the scatter sample drawn with another seed than the display sample
Page4ScatterOtherSeed(df) ==
    AtMost(ClipBy(IF NRows(df) > ScatterCeiling
                  THEN Sample(df, Min(ScatterCeiling, NRows(df)), 2)
                  ELSE df,
                  df, "AMT_INCOME_TOTAL", 95, 100),
           "AMT_CREDIT", Quantile(Col(df, "AMT_CREDIT"), 95, 100))

Page4Scatter(df) ==
    AtMost(ClipBy(SampleFor(df, ScatterCeiling), df, "AMT_INCOME_TOTAL", 95, 100),
           "AMT_CREDIT", Quantile(Col(df, "AMT_CREDIT"), 95, 100))

\* tab5: filtered_df = df_sample clipped at its own 0.99 quantiles
Page4Kde(sample) ==
    AtMost(ClipBy(sample, sample, "AMT_INCOME_TOTAL", 99, 100),
           "AMT_CREDIT", Quantile(Col(sample, "AMT_CREDIT"), 99, 100))

\* bins=10 of pd.cut
IncomeBins == 10

\* pd.cut(series, bins=10): the number 1..10 of the bracket a value falls
\* in, 0 for a missing value.  The brackets are the ten equal parts of
\* [lo, hi], each closed on the right, the first one also holding lo; when
\* every value is the same, the range is widened by 0.1% on both sides and
\* the value sits in the middle.
BracketOf(x, lo, hi) ==
    IF ~IsNum(x) THEN 0
    ELSE IF lo = hi THEN IncomeBins \div 2
    ELSE IF x = lo THEN 1
    ELSE LET t == FDiv(FMul(FSub(x, lo), Num(IncomeBins)), FSub(hi, lo))
         IN (t.n + t.d - 1) \div t.d

\* income_brackets = pd.cut(df['AMT_INCOME_TOTAL'], bins=10, precision=0)
\* bracket_defaults = df.groupby(income_brackets)['TARGET'].mean()
\* with Default_Rate = TARGET * 100.  The grouper is categorical: a pandas
\* whose groupby defaults to observed=False lists all ten brackets, the
\* empty ones with a NaN mean; one that defaults to observed=True lists
\* the brackets that hold rows.
BracketDefaults(df, observed) ==
    LET income == Col(df, "AMT_INCOME_TOTAL")
        sorted == SortAsc(DropNa(income))
        lo == sorted[1]
        hi == sorted[Len(sorted)]
        bracket == [i \in 1..NRows(df) |->
                       IF Len(sorted) = 0 THEN 0
                       ELSE BracketOf(income[i], lo, hi)]
        members(k) == Where(df, [i \in 1..NRows(df) |-> bracket[i] = k])
        all == [k \in 1..IncomeBins |->
                   [Income_Bracket |-> k,
                    Default_Rate |-> Pct(Mean(Col(members(k), "TARGET")))]]
    IN IF observed
       THEN SelectSeq(all, LAMBDA r : NRows(members(r.Income_Bracket)) > 0)
       ELSE all

Page4(raw, observed) ==
    LET miss == FirstMissing(raw, << "AMT_INCOME_TOTAL", "AMT_CREDIT" >>)
        \* line 17 binds df_sample before lines 36 and 41 write DTI and
        \* LTI to df: a sampled df_sample lacks them, an unsampled one is
        \* df and has them
        ns0 == Bind(raw, DisplayCeiling)
        ns1 == IF "AMT_ANNUITY" \in raw.cols
               THEN SetItem(ns0, "df",
                            [col \in {"DTI"} |-> Col(WithDTI(raw), "DTI")])
               ELSE ns0
        ns2 == SetItem(ns1, "df",
                       [col \in {"LTI"} |-> Col(WithLTI(raw), "LTI")])
        df2 == WithLTI(WithDTI(raw))
        sample0 == ns2.df_sample
        \* income_sample = df_sample.copy(); income_sample['Default_Status']
        income == ChartOnCopy(ns2, "df_sample",
                              DefaultStatus(sample0, "No", "Yes"))
        \* line 298 binds df_sample again, from df as it is by then
        ns3 == Bind(income.ns.df, DisplayCeiling)
        sample == SampleFor(df2, DisplayCeiling)
    IN IF miss # "" THEN Raised("kpi", miss, raw)
       ELSE IF "TARGET" \notin raw.cols THEN Raised("kpi", "TARGET", df2)
       ELSE Done(ns3,
                 Page4Kpi(df2, sample) @@ Page4Statistics(df2, Page4Kde(sample)),
                 [income_filtered |->
                      ClipBy(sample0, df2, "AMT_INCOME_TOTAL", 99, 100),
                  income_sample |->
                      ClipBy(income.chart, df2, "AMT_INCOME_TOTAL", 99, 100),
                  scatter_sample |-> Page4Scatter(df2),
                  bracket_defaults |-> BracketDefaults(df2, observed),
                  filtered_df |-> Page4Kde(sample)])

(* ------------------------------------------------------------------ *)
(* Page 5: Correlations, Drivers & Interactive Slice-and-Dice          *)
(* ------------------------------------------------------------------ *)
\* filtered_df[filtered_df[col] == selected] unless 'All' is selected or
\* the column is absent; a missing value equals nothing
FilterBy(f, col, selected) ==
    IF col \notin f.cols \/ selected = "All" THEN f
    ELSE Where(f, [i \in 1..NRows(f) |->
                     selected # NaCat /\ f.rows[i].c[col] = selected])

\* ['All'] + list(df[col].unique())
Options(f, col) ==
    IF col \in f.cols
    THEN {"All"} \cup {f.rows[i].c[col] : i \in 1..NRows(f)}
    ELSE {"All"}

\* corr_matrix.loc[a, 'TARGET'] if both are in the matrix else 0
CorrOr0(df, a, b) ==
    IF a \in df.cols /\ b \in df.cols THEN Corr(Col(df, a), Col(df, b))
    ELSE Num(0)

\* numerical_features: the listed columns the frame has, in list order
NumericalFeatures(df) ==
    SelectSeq(<< "AMT_INCOME_TOTAL", "AMT_CREDIT", "AGE_YEARS",
                 "EMPLOYMENT_YEARS", "TARGET", "AMT_ANNUITY",
                 "CNT_FAM_MEMBERS", "CNT_CHILDREN" >>,
              LAMBDA c : c \in df.cols)

\* the square of a defined correlation, cov^2 / (vx * vy), in lowest
\* terms; common factors are cancelled before the two quotients are
\* multiplied
R2(r) ==
    LET a == FDiv(r.cov, r.vx)
        b == FDiv(r.cov, r.vy)
        g1 == GCD(Abs(a.n), b.d)
        g2 == GCD(Abs(b.n), a.d)
    IN IF a.n = 0 THEN Num(0)
       ELSE Frac((a.n \div g1) * (b.n \div g2),
                 (a.d \div g2) * (b.d \div g1))

\* an/ad < bn/bd for rationals that are not negative, by their continued
\* fractions (no product is formed)
RECURSIVE RatLt(_, _, _, _)
RatLt(an, ad, bn, bd) ==
    IF an \div ad # bn \div bd THEN an \div ad < bn \div bd
    ELSE IF bn % bd = 0 THEN FALSE
    ELSE IF an % ad = 0 THEN TRUE
    ELSE RatLt(bd, bn % bd, ad, an % ad)

\* a > b on two defined correlations cov / sqrt(vx * vy)
CorrGt(a, b) ==
    IF Sign(a.cov) # Sign(b.cov) THEN Sign(a.cov) > Sign(b.cov)
    ELSE IF Sign(a.cov) >= 0
         THEN RatLt(R2(b).n, R2(b).d, R2(a).n, R2(a).d)
    ELSE RatLt(R2(a).n, R2(a).d, R2(b).n, R2(b).d)

\* sort_values(ascending=False): x stays ahead of a later entry e unless e
\* is larger; NaN goes last
StaysAhead(x, e) ==
    IsNaN(e.corr) \/ (~IsNaN(x.corr) /\ ~CorrGt(e.corr, x.corr))

RECURSIVE InsertDescending(_, _)
InsertDescending(e, s) ==
    IF Len(s) = 0 THEN << e >>
    ELSE IF StaysAhead(Head(s), e)
         THEN << Head(s) >> \o InsertDescending(e, Tail(s))
    ELSE << e >> \o s

RECURSIVE SortDescending(_)
SortDescending(s) ==
    IF Len(s) = 0 THEN << >>
    ELSE InsertDescending(s[Len(s)], SortDescending(SubSeq(s, 1, Len(s) - 1)))

\* corr_matrix['TARGET'].drop('TARGET').sort_values(ascending=False), or
\* the empty series when the matrix is not computed
RECURSIVE TargetColumn(_, _)
TargetColumn(df, features) ==
    IF Len(features) = 0 THEN << >>
    ELSE << [feature |-> Head(features),
             corr |-> Corr(Col(df, Head(features)), Col(df, "TARGET"))] >>
         \o TargetColumn(df, Tail(features))

CorrWithTarget(df) ==
    IF "TARGET" \in df.cols /\ Len(NumericalFeatures(df)) > 1
    THEN SortDescending(
             TargetColumn(df, SelectSeq(NumericalFeatures(df),
                                        LAMBDA c : c # "TARGET")))
    ELSE << >>

\* the 5 of head(5) and tail(5)
TopK == 5

\* s.head(5)
HeadK(s) == SubSeq(s, 1, Min(TopK, Len(s)))

\* s.tail(5)
TailK(s) == SubSeq(s, Len(s) - Min(TopK, Len(s)) + 1, Len(s))

\* corr_with_target.head(5)
Top5Positive(s) == HeadK(s)

\* corr_with_target.head(5).sort_values(ascending=False): the other end
\* of the sorted series
Top5NegativeHead(s) == SortDescending(HeadK(s))

\* corr_with_target.tail(5).sort_values(ascending=False)
Top5Negative(s) == SortDescending(TailK(s))

\* s.abs().sum() with every entry counted, NaN included
AbsSumKeepNa(s) ==
    IF \E i \in 1..Len(s) : IsNaN(s[i].corr) THEN NaN
    ELSE [k |-> "abssum", terms |-> s]

\* s.abs().sum(): the sum of the absolute values of the entries that are
\* not NaN, kept as the entries it adds up (a sum of square roots has no
\* exact rational value)
AbsSum(s) ==
    [k |-> "abssum", terms |-> SelectSeq(s, LAMBDA e : ~IsNaN(e.corr))]

\* top_5_positive.abs().sum() + top_5_negative.abs().sum()
VarianceExplained(pos, neg) ==
    IF IsNaN(AbsSum(pos)) \/ IsNaN(AbsSum(neg)) THEN NaN
    ELSE [k |-> "abssum", terms |-> AbsSum(pos).terms \o AbsSum(neg).terms]

\* (corr_with_target.abs() > 0.1).sum()
HighCorrFeatures(s) ==
    Len(SelectSeq(s, LAMBDA e : ~IsNaN(e.corr)
                                /\ RatLt(1, 100, R2(e.corr).n,
                                         R2(e.corr).d)))

\* feature_name_map.get(f, f)
FeatureName(f) ==
    CASE f = "AMT_ANNUITY" -> "Annuity Amount"
      [] f = "AMT_CREDIT" -> "Credit Amount"
      [] f = "AMT_INCOME_TOTAL" -> "Income"
      [] f = "AGE_YEARS" -> "Age"
      [] f = "EMPLOYMENT_YEARS" -> "Employment Years"
      [] f = "CNT_FAM_MEMBERS" -> "Family Size"
      [] f = "CNT_CHILDREN" -> "Number of Children"
      [] OTHER -> f

\* the feature and the r the insight text names from a slice: its first
\* entry (index[0], iloc[0]), or "A specific factor" and 0 when it is empty
FirstOfSlice(slice) ==
    IF Len(slice) > 0
    THEN [feature |-> FeatureName(slice[1].feature), r |-> slice[1].corr]
    ELSE [feature |-> "A specific factor", r |-> Num(0)]

\* r < 0 for a correlation coefficient: false for NaN, for 0 and for the
\* 0 that stands for a correlation that was not computed
IsNegative(r) ==
    IF r.k = "corr" THEN Sign(r.cov) < 0 ELSE FLt(r, Num(0))

\* the age wording chosen the other way round
AgeInsightFlipped(r) ==
    IF (IF r.k = "corr" THEN Sign(r.cov) > 0 ELSE FGt(r, Num(0)))
    THEN [who |-> "older", risk |-> "less"]
    ELSE [who |-> "younger", risk |-> "more"]

\* "older" if corr_age_target < 0 else "younger",
\* "less" if corr_age_target < 0 else "more"
AgeInsight(r) ==
    IF IsNegative(r) THEN [who |-> "older", risk |-> "less"]
    ELSE [who |-> "younger", risk |-> "more"]

\* "longer" if corr_employment_target < 0 else "shorter",
\* "reduces" if corr_employment_target < 0 else "increases"
EmploymentInsight(r) ==
    IF IsNegative(r) THEN [history |-> "longer", effect |-> "reduces"]
    ELSE [history |-> "shorter", effect |-> "increases"]

Page5Kpi(df, sample) ==
    LET employed_mask == ColGt(df, "EMPLOYMENT_YEARS", Num(0))
        employed == Where(df, employed_mask)
        unemployed ==
            Where(df, MaskNot(employed_mask))
        defaulters == TargetIs(df, 1)
        non_defaulters == TargetIs(df, 0)
        corr_with_target == CorrWithTarget(df)
        top_5_positive == Top5Positive(corr_with_target)
        top_5_negative == Top5Negative(corr_with_target)
    IN [corr_with_target |-> corr_with_target,
        top_5_positive |-> top_5_positive,
        top_5_negative |-> top_5_negative,
        variance_explained |->
            VarianceExplained(top_5_positive, top_5_negative),
        high_corr_features |-> HighCorrFeatures(corr_with_target),
        age_insight |-> AgeInsight(CorrOr0(df, "AGE_YEARS", "TARGET")),
        employment_insight |->
            EmploymentInsight(CorrOr0(df, "EMPLOYMENT_YEARS", "TARGET")),
        strongest_positive |-> FirstOfSlice(top_5_positive),
        strongest_negative |-> FirstOfSlice(top_5_negative),
        corr_income_credit |-> CorrOr0(df, "AMT_INCOME_TOTAL", "AMT_CREDIT"),
        corr_age_target |-> CorrOr0(df, "AGE_YEARS", "TARGET"),
        corr_employment_target |-> CorrOr0(df, "EMPLOYMENT_YEARS", "TARGET"),
        corr_family_target |-> CorrOr0(df, "CNT_FAM_MEMBERS", "TARGET"),
        employed_default_rate |->
            IF NRows(employed) > 0 THEN Pct(Mean(Col(employed, "TARGET")))
            ELSE Num(0),
        unemployed_default_rate |->
            IF NRows(unemployed) > 0 THEN Pct(Mean(Col(unemployed, "TARGET")))
            ELSE Num(0),
        avg_employment_defaulters |->
            IF NRows(defaulters) > 0
            THEN Mean(Col(defaulters, "EMPLOYMENT_YEARS")) ELSE Num(0),
        avg_employment_non_defaulters |->
            IF NRows(non_defaulters) > 0
            THEN Mean(Col(non_defaulters, "EMPLOYMENT_YEARS")) ELSE Num(0),
        employment_target_corr |->
            IF NRows(df) > 1
            THEN Corr(Col(df, "EMPLOYMENT_YEARS"), Col(df, "TARGET"))
            ELSE Num(0)]

\* the education filter applied to df instead of filtered_df: it undoes
\* the gender filter
Page5ChartsLastFilter(df1, sample, selected) ==
    LET filtered_df ==
            IF selected.education = "All"
            THEN FilterBy(df1, "CODE_GENDER", selected.gender)
            ELSE FilterBy(df1, "NAME_EDUCATION_TYPE", selected.education)
    IN [filtered_df |-> filtered_df,
        filtered_sample |-> SampleFor(filtered_df, ScatterCeiling),
        gender_defaults |-> SegmentRate(filtered_df, "CODE_GENDER"),
        education_defaults |->
            SegmentRate(filtered_df, "NAME_EDUCATION_TYPE"),
        jittered_data |-> SetCols(sample, JitterColumns(sample))]

\* what page 5 draws: the frame the sidebar filters leave and what is
\* computed from it; the jitter plot takes the unfiltered sample
Page5Charts(df1, sample, selected) ==
    LET filtered_df ==
            FilterBy(FilterBy(df1, "CODE_GENDER", selected.gender),
                     "NAME_EDUCATION_TYPE", selected.education)
    IN [filtered_df |-> filtered_df,
        filtered_sample |-> SampleFor(filtered_df, ScatterCeiling),
        gender_defaults |-> SegmentRate(filtered_df, "CODE_GENDER"),
        education_defaults |->
            SegmentRate(filtered_df, "NAME_EDUCATION_TYPE"),
        jittered_data |-> SetCols(sample, JitterColumns(sample))]

Page5(raw, selected) ==
    IF "DAYS_BIRTH" \notin raw.cols THEN Raised("derive", "DAYS_BIRTH", raw)
    ELSE IF "DAYS_EMPLOYED" \notin raw.cols
         THEN Raised("derive", "DAYS_EMPLOYED", WithAge(raw))
    ELSE LET df1 == WithEmployment(WithAge(raw))
             ns == Bind(df1, CorrCeiling)
             sample == ns.df_sample
             miss == FirstMissing(df1, << "TARGET", "AMT_CREDIT",
                                         "AMT_INCOME_TOTAL" >>)
             \* jittered_data = df_sample.copy(), then its two columns
             jitter == ChartOnCopy(ns, "df_sample", JitterColumns(sample))
         IN IF miss # "" THEN Raised("chart", miss, df1)
            ELSE Done(jitter.ns, Page5Kpi(df1, sample),
                      Page5Charts(df1, sample, selected))

\* the run of page 5 under another sidebar selection, given its run with
\* nothing selected: the derived frame, the sample and the KPIs come from
\* the full dataset, only the filtered frame and its charts change
\* the selection applied before the KPIs: they are computed from the
\* filtered frame
Page5SelectFiltered(run, selected) ==
    IF run.status = "ok"
    THEN [run EXCEPT
             !.charts = Page5Charts(run.df, run.df_sample, selected),
             !.kpi = Page5Kpi(Page5Charts(run.df, run.df_sample,
                                          selected).filtered_df,
                              run.df_sample)]
    ELSE run

Page5Select(run, selected) ==
    IF run.status = "ok"
    THEN [run EXCEPT !.charts = Page5Charts(run.df, run.df_sample, selected)]
    ELSE run

(* ------------------------------------------------------------------ *)
(* State of the last script run                                        *)
(* ------------------------------------------------------------------ *)
VARIABLES
    src,        \* the input the run passed to load_data
    status,     \* how the run ended
    df,         \* the run's df
    df_sample,  \* the run's df_sample
    df_sample_is_df,  \* whether df_sample names the object df names
    kpi,        \* the KPI values the run displayed
    charts,     \* the frames the run handed to charts
    reads       \* input -> how many times pd.read_csv has run on it

vars == << files, uploaded, cache, page, src, status, df, df_sample,
           df_sample_is_df, kpi, charts, sel, reads >>

(* ------------------------------------------------------------------ *)
(* Files, the loader and the script runs                               *)
(* ------------------------------------------------------------------ *)
DefaultPath == "H:/Home Dashboard/preprocessing/reduced_dataset.csv"

UploadNames == {"upload.csv", "upload.xls", "upload.xlsx"}

FormatOf(name) ==
    CASE name = "upload.csv" -> "csv"
      [] name = "upload.xls" -> "xls"
      [] name = "upload.xlsx" -> "xlsx"
      [] OTHER -> "csv"

\* the table an uploadable file holds
UploadTable == MakeFrame(<< 3, 6 >>, RawCols)

Inputs == {DefaultPath} \cup UploadNames

\* pd.read_csv(file_path): parses CSV text; the bytes of an Excel
\* workbook are not CSV text and the call raises
ReadCsv(name) ==
    IF files[name].fmt = "csv"
    THEN [ok |-> TRUE, data |-> files[name].data]
    ELSE [ok |-> FALSE, data |-> EmptyFrame]

\* @st.cache_data load_data(file_path): on a miss the body runs and its
\* return value is stored; every call hands out a fresh copy, so a caller
\* writing to its df does not write to the memo.  A raising body stores
\* nothing.
LoadData(name) ==
    IF cache[name].loaded
    THEN [ok |-> TRUE, data |-> cache[name].data, cache |-> cache,
          reads |-> reads]
    ELSE LET r == ReadCsv(name)
         IN [ok |-> r.ok, data |-> r.data,
             cache |-> IF r.ok
                       THEN [cache EXCEPT ![name] =
                                [loaded |-> TRUE, data |-> r.data]]
                       ELSE cache,
             reads |-> [reads EXCEPT ![name] = @ + 1]]

NotLoaded == [loaded |-> FALSE, data |-> EmptyFrame]

ReadFailed ==
    [status |-> "ReadError", stage |-> "load", errcol |-> "",
     df |-> EmptyFrame, df_sample |-> EmptyFrame, df_sample_is_df |-> FALSE,
     kpi |-> NoKpi, charts |-> NoCharts]

\* The run of a script when the loader hands out the memoized object itself
\* (as st.cache_resource does): the columns the run attached stay in the memo
ShowSharedFrame(p, name, ld, run) ==
    /\ page' = p
    /\ src' = name
    /\ cache' = IF ld.ok
                THEN [ld.cache EXCEPT ![name] =
                         [loaded |-> TRUE, data |-> run.df]]
                ELSE ld.cache
    /\ status' = [code |-> run.status, stage |-> run.stage,
                  errcol |-> run.errcol]
    /\ df' = run.df
    /\ df_sample' = run.df_sample
    /\ df_sample_is_df' = run.df_sample_is_df
    /\ kpi' = run.kpi
    /\ charts' = run.charts
    /\ reads' = ld.reads

\* The run of a script: its observable outcome becomes the view
Show(p, name, ld, run) ==
    /\ page' = p
    /\ src' = name
    /\ cache' = ld.cache
    /\ status' = [code |-> run.status, stage |-> run.stage,
                  errcol |-> run.errcol]
    /\ df' = run.df
    /\ df_sample' = run.df_sample
    /\ df_sample_is_df' = run.df_sample_is_df
    /\ kpi' = run.kpi
    /\ charts' = run.charts
    /\ reads' = ld.reads

\* nothing selected in the sidebar of page 5; its two selectboxes exist
\* only while page 5 is the page on screen
NoSelection == [gender |-> "All", education |-> "All"]

\* Home.py: uploaded_file = st.file_uploader(...)
\* df = load_data(uploaded_file) if uploaded_file else load_data()
\* st.dataframe(df.head(10))
Home ==
    \E up \in (DOMAIN files \ {DefaultPath}) \cup {""} :
    \E name \in {IF up # "" THEN up ELSE DefaultPath} :
    \E ld \in {LoadData(name)} :
        /\ ld.reads[name] <= MaxReads
        /\ uploaded' = up
        /\ sel' = NoSelection
        /\ Show(0, name, ld,
                IF ld.ok
                THEN Done([df |-> ld.data, df_sample |-> EmptyFrame,
                           df_sample_is_df |-> FALSE], NoKpi, NoCharts)
                ELSE ReadFailed)
        /\ UNCHANGED files

\* A page script starts with df = load_data(): always the default path
RenderPage1 ==
    \E ld \in {LoadData(DefaultPath)} :
    \E run \in {IF ld.ok THEN Page1(ld.data) ELSE ReadFailed} :
        /\ sel' = NoSelection
        /\ Show(1, DefaultPath, ld, run)
        /\ UNCHANGED << files, uploaded >>

RenderPage2 ==
    \E ld \in {LoadData(DefaultPath)} :
    \E run \in {IF ld.ok THEN Page2(ld.data) ELSE ReadFailed} :
        /\ sel' = NoSelection
        /\ Show(2, DefaultPath, ld, run)
        /\ UNCHANGED << files, uploaded >>

RenderPage3 ==
    \E ld \in {LoadData(DefaultPath)} :
    \E run \in {IF ld.ok THEN Page3(ld.data) ELSE ReadFailed} :
        /\ sel' = NoSelection
        /\ Show(3, DefaultPath, ld, run)
        /\ UNCHANGED << files, uploaded >>

\* whether groupby lists unobserved categories is the installed pandas'
\* default; each run draws it
RenderPage4 ==
    \E ld \in {LoadData(DefaultPath)} :
    \E observed \in BOOLEAN :
    \E run \in {IF ld.ok THEN Page4(ld.data, observed) ELSE ReadFailed} :
        /\ sel' = NoSelection
        /\ Show(4, DefaultPath, ld, run)
        /\ UNCHANGED << files, uploaded >>

\* page 5 reads its two sidebar selectboxes; the choice is the analyst's
RenderPage5 ==
    \E ld \in {LoadData(DefaultPath)} :
    \E all \in {IF ld.ok THEN Page5(ld.data, NoSelection) ELSE ReadFailed} :
    \E g \in Options(ld.data, "CODE_GENDER") :
    \E e \in Options(ld.data, "NAME_EDUCATION_TYPE") :
    \E run \in {Page5Select(all, [gender |-> g, education |-> e])} :
        /\ sel' = [gender |-> g, education |-> e]
        /\ Show(5, DefaultPath, ld, run)
        /\ UNCHANGED << files, uploaded >>

\* the demo tables of the sessions in which the analyst also has files to
\* upload
SessionShapes == { << 1, 2, 3, 4 >>, << 2, 5 >>, << 1, 3, 6 >> }

\* The files of a session: the bundled demo file with any table of at
\* most MaxRows applicants and any column group absent, and no other file;
\* or a complete demo table and one file to upload, of any accepted format.
Environments ==
    { [n \in {DefaultPath} |->
          [fmt |-> "csv", data |-> MakeFrame(shape, RawCols \ drop)]] :
      shape \in Shapes, drop \in DropGroups }
    \cup
    { [n \in {DefaultPath, up} |->
          IF n = DefaultPath
          THEN [fmt |-> "csv", data |-> MakeFrame(shape, RawCols)]
          ELSE [fmt |-> FormatOf(n), data |-> UploadTable]] :
      shape \in SessionShapes, up \in UploadNames }

\* the app has started and no script has run yet
Init ==
    /\ files \in Environments
    /\ uploaded = ""
    /\ cache = [n \in DOMAIN files |-> NotLoaded]
    /\ page = 0
    /\ src = DefaultPath
    /\ status = [code |-> "start", stage |-> "", errcol |-> ""]
    /\ df = EmptyFrame
    /\ df_sample = EmptyFrame
    /\ df_sample_is_df = FALSE
    /\ kpi = NoKpi
    /\ charts = NoCharts
    /\ sel = NoSelection
    /\ reads = [n \in DOMAIN files |-> 0]

Next ==
    \/ Home
    \/ RenderPage1
    \/ RenderPage2
    \/ RenderPage3
    \/ RenderPage4
    \/ RenderPage5

Spec == Init /\ [][Next]_vars

(* ------------------------------------------------------------------ *)
(* The quantile clip of a chart over a dataset of a hundred rows       *)
(* ------------------------------------------------------------------ *)
\* rows of the datasets of this scenario
ClipRows == 100

\* an income column of ClipRows rows: `missing` rows without a value, then
\* values step, 2*step, ... and `ties` rows sharing the largest value top;
\* in file order ascending or descending
ClipColumn(step, top, ties, missing, ascending) ==
    LET value(k) == IF k <= missing THEN NaN
                    ELSE IF k > ClipRows - ties THEN Num(top)
                    ELSE Num(step * k)
    IN [cols |-> {"AMT_INCOME_TOTAL"},
        rows |-> [i \in 1..ClipRows |->
                    [ix |-> i - 1,
                     c |-> [col \in {"AMT_INCOME_TOTAL"} |->
                              IF ascending THEN value(i)
                              ELSE value(ClipRows + 1 - i)]]]]

ClipColumns ==
    { ClipColumn(step, top, ties, missing, ascending) :
        step \in 1..2, top \in {200, 250, 1000}, ties \in 1..3,
        missing \in 0..2, ascending \in BOOLEAN }

\* a page holding a dataset of ClipRows rows, below the display ceiling of
\* 5000: df_sample is df
ClipInit ==
    /\ files = [n \in {DefaultPath} |-> [fmt |-> "csv", data |-> EmptyFrame]]
    /\ uploaded = ""
    /\ cache = [n \in DOMAIN files |-> NotLoaded]
    /\ page = 1
    /\ src = DefaultPath
    /\ status = [code |-> "ok", stage |-> "done", errcol |-> ""]
    /\ df \in ClipColumns
    /\ df_sample = df
    /\ df_sample_is_df = TRUE
    /\ kpi = NoKpi
    /\ charts = NoCharts
    /\ sel = NoSelection
    /\ reads = [n \in DOMAIN files |-> 0]

\* income_q99 = df['AMT_INCOME_TOTAL'].quantile(0.99)
\* income_sample = df_sample[df_sample['AMT_INCOME_TOTAL'] <= income_q99]
ClipIncomeChart ==
    /\ charts = NoCharts
    /\ charts' = [income_sample |->
                      ClipBy(df_sample, df, "AMT_INCOME_TOTAL", 99, 100)]
    /\ UNCHANGED << files, uploaded, cache, page, sel, src, status, df,
                    df_sample, df_sample_is_df, kpi, reads >>

ClipNext == ClipIncomeChart

SpecClip == ClipInit /\ [][ClipNext]_vars

(* ------------------------------------------------------------------ *)
(* Properties                                                          *)
(* ------------------------------------------------------------------ *)

\* C1: once a file has been uploaded on Home, every analysis page that
\* rendered computed its statistics over the uploaded table (its df holds
\* the uploaded file's records); the demo file serves only sessions
\* without an upload.
C1_PagesUseUpload ==
    (page \in 1..5 /\ status.code = "ok" /\ uploaded # "") =>
        /\ src = uploaded
        /\ NRows(df) = NRows(files[uploaded].data)
        /\ \A i \in 1..NRows(df) : \A c \in RawCols :
              df.rows[i].c[c] = files[uploaded].data.rows[i].c[c]

\* C2: on every page that derives EMPLOYMENT_YEARS (2, 3 and 5), each
\* record with DAYS_EMPLOYED = d > 0 has EMPLOYMENT_YEARS exactly 0, and each
\* record with d <= 0 has the one-decimal number y/10 nearest to -d/365;
\* -3650 gives 10.0, 5 gives 0.0 and -730 gives 2.0.
C2_EmploymentYears ==
    (page \in {2, 3, 5} /\ status.code = "ok") =>
        \A i \in 1..NRows(df) :
            LET d == df.rows[i].c["DAYS_EMPLOYED"]
                e == df.rows[i].c["EMPLOYMENT_YEARS"]
            IN /\ (IsNum(d) /\ d.n > 0) => e = Num(0)
               /\ (IsNum(d) /\ d.n <= 0) =>
                     \E y \in 0..1000 :
                         /\ e = Frac(y, 10)
                         /\ Abs(20 * (-d.n) - 730 * y) <= 365
               /\ d = Num(-3650) => e = Num(10)
               /\ d = Num(5) => e = Num(0)
               /\ d = Num(-730) => e = Num(2)

\* C2 witness: page 5 has derived the field for the records with
\* DAYS_EMPLOYED -3650, -730 and 5
C2_Witness ==
    /\ page = 5
    /\ status.code = "ok"
    /\ Col(df, "DAYS_EMPLOYED") = << Num(-3650), Num(-730), Num(5) >>
    /\ Col(df, "EMPLOYMENT_YEARS") = << Num(10), Num(2), Num(0) >>

\* C3: on page 4 every record with AMT_INCOME_TOTAL = 0 has a missing LTI
\* and a missing DTI, never an infinite one; the record with income 50000
\* and credit 100000 has LTI 2.0.
C3_ZeroIncomeRatiosMissing ==
    (page = 4 /\ status.code = "ok") =>
        \A i \in 1..NRows(df) :
            LET r == df.rows[i].c
            IN /\ r["AMT_INCOME_TOTAL"] = Num(0) =>
                     /\ IsNaN(r["LTI"])
                     /\ "DTI" \in df.cols => IsNaN(r["DTI"])
               /\ (r["AMT_INCOME_TOTAL"] = Num(50) /\ r["AMT_CREDIT"] = Num(100))
                     => r["LTI"] = Num(2)

\* C4: on page 4 the average LTI and average DTI are finite whenever some
\* record has a non-zero income, and a record with income 0 is in neither
\* the above-threshold nor the at-or-below-threshold group of either ratio.
C4_ZeroIncomeOutOfAggregates ==
    (page = 4 /\ status.code = "ok") =>
        /\ (\E i \in 1..NRows(df) :
               /\ IsNum(df.rows[i].c["AMT_INCOME_TOTAL"])
               /\ df.rows[i].c["AMT_INCOME_TOTAL"] # Num(0))
              => IsFinite(kpi.avg_lti) /\ IsFinite(kpi.avg_dti)
        /\ \A i \in 1..NRows(df) :
              LET r == df.rows[i].c
              IN r["AMT_INCOME_TOTAL"] = Num(0) =>
                    /\ ~FGt(r["LTI"], lti_threshold)
                    /\ ~FLe(r["LTI"], lti_threshold)
                    /\ "DTI" \in df.cols =>
                          /\ ~FGt(r["DTI"], dti_threshold)
                          /\ ~FLe(r["DTI"], dti_threshold)

\* C5: when the dataset file holds both DAYS_BIRTH and TARGET, no page's
\* run ends in the derivation at its top, whatever other column the file
\* lacks.
C5_DeriveFailsOnlyOnRequired ==
    (page \in 1..5 /\ RequiredCols \subseteq files[src].data.cols) =>
        ~(status.code = "KeyError" /\ status.stage = "derive")

\* C6: when the dataset file lacks only optional columns, the page's run
\* does not raise and every KPI that depends on an absent column shows its
\* default: a number (never NaN) on the segment tiles of page 2, and 0 for
\* the guarded KPIs of pages 2, 3 and 4.
C6_AbsentOptionalColumnDefaults ==
    LET absent == RawCols \ files[src].data.cols
        optional == TextCols \cup {"CNT_CHILDREN", "CNT_FAM_MEMBERS",
                                   "AMT_ANNUITY", "AMT_GOODS_PRICE"}
    IN (page \in 1..5 /\ absent # {} /\ absent \subseteq optional) =>
          /\ status.code = "ok"
          /\ page = 2 =>
                /\ "CODE_GENDER" \in absent => ~IsNaN(kpi.tile_gender)
                /\ "NAME_EDUCATION_TYPE" \in absent
                      => ~IsNaN(kpi.tile_education)
                /\ "NAME_FAMILY_STATUS" \in absent => ~IsNaN(kpi.tile_family)
                /\ "NAME_HOUSING_TYPE" \in absent => ~IsNaN(kpi.tile_housing)
                /\ "AMT_ANNUITY" \in absent => kpi.avg_annuity_default = Num(0)
          /\ page = 3 =>
                /\ "CODE_GENDER" \in absent
                      => kpi.percent_male = Num(0) /\ kpi.percent_female = Num(0)
                /\ "CNT_CHILDREN" \in absent
                      => kpi.percent_with_children = Num(0)
                /\ "CNT_FAM_MEMBERS" \in absent => kpi.avg_family_size = Num(0)
                /\ "NAME_FAMILY_STATUS" \in absent
                      => kpi.percent_married = Num(0)
          /\ page = 4 =>
                /\ "AMT_ANNUITY" \in absent
                      => kpi.avg_annuity = Num(0) /\ kpi.avg_dti = Num(0)
                /\ "AMT_GOODS_PRICE" \in absent => kpi.avg_goods_price = Num(0)

\* C7: a rate or mean taken over a selection of zero rows (no defaulters,
\* no non-defaulters, nobody above a threshold, nobody employed or
\* unemployed) is never shown as NaN.
C7_EmptySelectionNeverNaN ==
    status.code = "ok" =>
        LET none(v) == NRows(TargetIs(df, v)) = 0
        IN /\ (page = 2 /\ none(1)) =>
                 /\ ~IsNaN(kpi.avg_income_default)
                 /\ ~IsNaN(kpi.avg_credit_default)
                 /\ ~IsNaN(kpi.avg_employment_default)
           /\ (page = 4 /\ (none(0) \/ none(1))) =>
                 /\ ~IsNaN(kpi.income_gap)
                 /\ ~IsNaN(kpi.credit_gap)
           /\ (page = 4 /\ \A i \in 1..NRows(df) :
                              ~FGt(df.rows[i].c["LTI"], lti_threshold)) =>
                 ~IsNaN(kpi.high_lti_default_rate)
           /\ (page = 5 /\ \A i \in 1..NRows(df) :
                              ~FGt(df.rows[i].c["EMPLOYMENT_YEARS"], Num(0))) =>
                 ~IsNaN(kpi.employed_default_rate)
           /\ (page = 5 /\ none(1)) => ~IsNaN(kpi.avg_employment_defaulters)

\* C8: a page's df_sample is its df itself (same rows, same order) when df
\* has at most the ceiling's rows, and otherwise holds exactly the ceiling's
\* number of rows, each a row of df and no row of df twice; the same for the
\* filtered sample of page 5 against its filtered frame.
C8_SamplerContract ==
    (page \in 1..5 /\ status.code = "ok") =>
        LET ceiling == IF page = 5 THEN CorrCeiling ELSE DisplayCeiling
            Contract(out, in, max_rows) ==
                /\ NRows(in) <= max_rows => out = in
                /\ NRows(in) > max_rows =>
                      /\ NRows(out) = max_rows
                      /\ \A i \in 1..NRows(out) :
                            \E j \in 1..NRows(in) : out.rows[i] = in.rows[j]
                      /\ \A i \in 1..NRows(out) : \A j \in 1..NRows(out) :
                            i # j => out.rows[i].ix # out.rows[j].ix
        IN /\ Contract(df_sample, df, ceiling)
           /\ page = 5 => Contract(charts.filtered_sample, charts.filtered_df,
                                   ScatterCeiling)

\* C8 witness: page 1 rendered a dataset with more rows than the ceiling
\* and its df_sample is a cut of it
C8_Witness ==
    /\ page = 1
    /\ status.code = "ok"
    /\ NRows(df) > DisplayCeiling
    /\ NRows(df_sample) = DisplayCeiling
    /\ df_sample # df

\* C9: two consecutive renders with the same ceiling (the same page twice,
\* or two of pages 1-4) over the same dataset show the same sampled rows:
\* the same index labels in the same order, with the same raw cells.
C9_SamplingDeterministic ==
    [][ ( /\ page \in 1..5 /\ page' \in 1..5
          /\ status.code = "ok" /\ status'.code = "ok"
          /\ src' = src
          /\ (page = 5) = (page' = 5) )
        => /\ Index(df_sample') = Index(df_sample)
           /\ \A i \in 1..NRows(df_sample) : \A c \in RawCols :
                 c \in df_sample.cols =>
                    df_sample'.rows[i].c[c] = df_sample.rows[i].c[c] ]_vars

\* C9 witness: page 3 shows the rows that seed 42 picks out of a dataset
\* of four rows
C9_Witness ==
    /\ page = 3
    /\ status.code = "ok"
    /\ NRows(df) = 4
    /\ Index(df_sample) = << 1, 3, 0 >>

\* C10: the statistics of page 4's tab 5 and of page 5's tab 5, and the
\* headline KPIs of page 4, are those of the full dataset as loaded, also
\* when df_sample is a strict part of it and a clip has removed rows.
C10_KpisOverFullDataset ==
    (page \in {4, 5} /\ status.code = "ok") =>
        LET full == cache[src].data
            income == Col(full, "AMT_INCOME_TOTAL")
            credit == Col(full, "AMT_CREDIT")
            years == Col(df, "EMPLOYMENT_YEARS")
            target == Col(full, "TARGET")
            rows == 1..NRows(full)
            RateOf(S) ==
                IF S = {} THEN Num(0)
                ELSE Pct(Frac(Cardinality({i \in S : target[i] = Num(1)}),
                              Cardinality(S)))
            MeanOf(S) ==
                IF S = {} THEN Num(0)
                ELSE Mean([j \in 1..Cardinality(S) |-> years[SetToSeq(S)[j]]])
        IN /\ NRows(df) = NRows(full)
           /\ page = 4 =>
                 /\ kpi.income_mean = Mean(income)
                 /\ kpi.income_median = Median(income)
                 /\ kpi.credit_mean = Mean(credit)
                 /\ kpi.credit_median = Median(credit)
                 /\ kpi.correlation = Corr(income, credit)
                 /\ kpi.avg_income = Mean(income)
                 /\ kpi.median_income = Median(income)
                 /\ kpi.avg_credit = Mean(credit)
           /\ page = 5 =>
                 /\ kpi.employed_default_rate =
                       RateOf({i \in rows : FGt(years[i], Num(0))})
                 /\ kpi.unemployed_default_rate =
                       RateOf({i \in rows : ~FGt(years[i], Num(0))})
                 /\ kpi.avg_employment_defaulters =
                       MeanOf({i \in rows : target[i] = Num(1)})
                 /\ kpi.avg_employment_non_defaulters =
                       MeanOf({i \in rows : target[i] = Num(0)})
                 /\ kpi.employment_target_corr =
                       (IF NRows(full) > 1 THEN Corr(years, target)
                        ELSE Num(0))

\* C10 witness: page 4 rendered with a df_sample smaller than df and a KDE
\* frame smaller still, whose mean income is not the dataset's
C10_Witness ==
    /\ page = 4
    /\ status.code = "ok"
    /\ NRows(df_sample) < NRows(df)
    /\ NRows(charts.filtered_df) < NRows(df_sample)
    /\ Mean(Col(charts.filtered_df, "AMT_INCOME_TOTAL")) # kpi.income_mean

\* C11: on every page the df that carries the derived columns has exactly
\* the rows of the dataset as loaded: the same number of rows, the same
\* index labels in the same order and the same raw cells, also for rows
\* whose DAYS_EMPLOYED is positive or missing.
C11_DerivationKeepsRows ==
    (page \in 1..5 /\ status.code = "ok") =>
        LET full == cache[src].data
        IN /\ NRows(df) = NRows(full)
           /\ Index(df) = Index(full)
           /\ \A i \in 1..NRows(full) : \A c \in full.cols :
                 df.rows[i].c[c] = full.rows[i].c[c]

\* C11 witness: page 2 derived its columns over a dataset that holds a
\* record with a positive and a record with a missing DAYS_EMPLOYED
C11_Witness ==
    /\ page = 2
    /\ status.code = "ok"
    /\ "EMPLOYMENT_YEARS" \in df.cols
    /\ \E i \in 1..NRows(df) : FGt(df.rows[i].c["DAYS_EMPLOYED"], Num(0))
    /\ \E i \in 1..NRows(df) : IsNaN(df.rows[i].c["DAYS_EMPLOYED"])

\* C12: whatever pages have rendered before, the loader's memo holds the
\* file's raw columns and raw values only, so a page's df carries the raw
\* columns plus the columns that page derives itself and never AGE_YEARS,
\* EMPLOYMENT_YEARS, DTI or LTI left by another page; page 1 counts the raw
\* columns plus its own AGE_YEARS as total features.
C12_LoaderOutputNotMutated ==
    /\ \A n \in DOMAIN cache :
          cache[n].loaded => cache[n].data = files[n].data
    /\ (page \in 1..5 /\ status.code = "ok") =>
          LET raw == files[src].data.cols
          IN /\ raw \subseteq RawCols
             /\ page = 1 =>
                   /\ df.cols = raw \cup {"AGE_YEARS"}
                   /\ kpi.total_features = Num(Cardinality(raw) + 1)
             /\ page \in {2, 3, 5} =>
                   df.cols = raw \cup {"AGE_YEARS", "EMPLOYMENT_YEARS"}
             /\ page = 4 =>
                   /\ df.cols \cap {"AGE_YEARS", "EMPLOYMENT_YEARS"} = {}
                   /\ df.cols \ {"DTI", "LTI"} = raw

\* C12 witness: page 2 has attached its derived columns to its df and the
\* memo entry it loaded from still lacks them
C12_Witness ==
    /\ page = 2
    /\ status.code = "ok"
    /\ "EMPLOYMENT_YEARS" \in df.cols
    /\ cache[src].loaded
    /\ cache[src].data.cols \cap {"AGE_YEARS", "EMPLOYMENT_YEARS"} = {}

\* C13: in a session pd.read_csv runs at most once on any input, and a
\* memo entry, once stored, is never dropped or replaced.
C13_ReadAtMostOnce ==
    /\ \A n \in DOMAIN reads : reads[n] <= 1
    /\ \A n \in DOMAIN cache : cache[n].loaded => cache[n].data = files[n].data

\* C14: page 1's missingness report lists exactly the columns of df with at
\* least one missing cell, each once, with its missing count and with the
\* two-decimal percentage nearest to count / rows * 100, in non-increasing
\* order of percentage; a column missing in every row reports 100.
C14_MissingnessReport ==
    (page = 1 /\ status.code = "ok") =>
        LET report == charts.missing_data
            n == NRows(df)
            count(c) ==
                Cardinality({i \in 1..n :
                    IF c \in TextCols THEN df.rows[i].c[c] = NaCat
                    ELSE IsNaN(df.rows[i].c[c])})
        IN /\ {report[j].Feature : j \in 1..Len(report)}
                 = {c \in df.cols : count(c) > 0}
           /\ \A j \in 1..Len(report) : \A k \in 1..Len(report) :
                 j # k => report[j].Feature # report[k].Feature
           /\ \A j \in 1..Len(report) :
                 LET r == report[j]
                 IN /\ r.Missing_Count = count(r.Feature)
                    /\ \E y \in 0..10000 :
                          /\ r.Missing_Percentage = Frac(y, 100)
                          /\ 2 * Abs(10000 * r.Missing_Count - y * n) <= n
                    /\ r.Missing_Count = n => r.Missing_Percentage = Num(100)
           /\ \A j \in 1..Len(report) - 1 :
                 FGe(report[j].Missing_Percentage,
                     report[j + 1].Missing_Percentage)

\* C14 witness: a report of several columns whose percentages differ, over
\* a dataset that also has columns without a missing value
C14_Witness ==
    /\ page = 1
    /\ status.code = "ok"
    /\ Len(charts.missing_data) >= 2
    /\ FGt(charts.missing_data[1].Missing_Percentage,
           charts.missing_data[Len(charts.missing_data)].Missing_Percentage)
    /\ Len(charts.missing_data) < Cardinality(df.cols)

\* C15: on page 2, for gender, education, family status and housing type,
\* every category's default rate is a number from 0 to 100, and when no row
\* lacks a value in the column the rates weighted by the categories' row
\* counts add up to the overall default rate times the number of rows.
C15_GroupedRatePartition ==
    (page = 2 /\ status.code = "ok") =>
        \A col \in {"CODE_GENDER", "NAME_EDUCATION_TYPE",
                    "NAME_FAMILY_STATUS", "NAME_HOUSING_TYPE"} \cap df.cols :
            LET rates ==
                    CASE col = "CODE_GENDER" -> kpi.default_rate_gender
                      [] col = "NAME_EDUCATION_TYPE" -> kpi.default_rate_education
                      [] col = "NAME_FAMILY_STATUS" -> kpi.default_rate_family
                      [] col = "NAME_HOUSING_TYPE" -> kpi.default_rate_housing
                ks == SetToSeq(DOMAIN rates)
                size(g) ==
                    Cardinality({i \in 1..NRows(df) : df.rows[i].c[col] = g})
            IN /\ \A g \in DOMAIN rates :
                     /\ IsNum(rates[g])
                     /\ FLe(Num(0), rates[g])
                     /\ FLe(rates[g], Num(100))
               /\ (\A i \in 1..NRows(df) : df.rows[i].c[col] # NaCat) =>
                     FSum([j \in 1..Len(ks) |->
                              FMul(rates[ks[j]], Num(size(ks[j])))])
                        = FMul(kpi.default_rate, Num(NRows(df)))

\* C15 witness: page 2 grouped a dataset whose two genders default at
\* different rates, every row having a gender
C15_Witness ==
    /\ page = 2
    /\ status.code = "ok"
    /\ "CODE_GENDER" \in df.cols
    /\ DOMAIN kpi.default_rate_gender = {"F", "M"}
    /\ kpi.default_rate_gender["F"] # kpi.default_rate_gender["M"]
    /\ FGt(kpi.default_rate, Num(0))

\* C16: every group listed in a grouped default-rate result holds at least
\* one row and has a rate that is not NaN: the per-category rates of page
\* 2, the income-bracket rates of page 4 and the filter-responsive gender
\* and education rates of page 5.
C16_NoEmptyGroupListed ==
    status.code = "ok" =>
        LET Listed(rates, f, col) ==
                \A g \in DOMAIN rates :
                    /\ \E i \in 1..NRows(f) : f.rows[i].c[col] = g
                    /\ ~IsNaN(rates[g])
        IN /\ page = 2 =>
                 /\ Listed(kpi.default_rate_gender, df, "CODE_GENDER")
                 /\ Listed(kpi.default_rate_education, df,
                           "NAME_EDUCATION_TYPE")
                 /\ Listed(kpi.default_rate_family, df, "NAME_FAMILY_STATUS")
                 /\ Listed(kpi.default_rate_housing, df, "NAME_HOUSING_TYPE")
           /\ page = 5 =>
                 /\ Listed(charts.gender_defaults, charts.filtered_df,
                           "CODE_GENDER")
                 /\ Listed(charts.education_defaults, charts.filtered_df,
                           "NAME_EDUCATION_TYPE")
           /\ page = 4 =>
                 \A j \in 1..Len(charts.bracket_defaults) :
                     LET r == charts.bracket_defaults[j]
                         income == Col(df, "AMT_INCOME_TOTAL")
                         lo == SortAsc(DropNa(income))[1]
                         hi == SortAsc(DropNa(income))[Len(DropNa(income))]
                     IN /\ \E i \in 1..NRows(df) :
                              BracketOf(income[i], lo, hi) = r.Income_Bracket
                        /\ ~IsNaN(r.Default_Rate)

\* C17: for education, family status and housing type, the highest-risk
\* line names a category whose grouped default rate is at least that of
\* every other category and the lowest-risk line one whose rate is at most
\* that of every other, each shown with that rate to one decimal; the line
\* is left out when the column is absent or no row has a category.
C17_RiskSegmentInsights ==
    (page = 2 /\ status.code = "ok") =>
        \A l \in {"Education", "Family Status", "Housing Type"} :
            LET col == CASE l = "Education" -> "NAME_EDUCATION_TYPE"
                         [] l = "Family Status" -> "NAME_FAMILY_STATUS"
                         [] l = "Housing Type" -> "NAME_HOUSING_TYPE"
                groups == IF col \in df.cols THEN Categories(df, col) ELSE {}
                rate(g) == Pct(Mean(Col(Where(df, ColEq(df, col, g)),
                                        "TARGET")))
                hi == charts.highest_risk
                lo == charts.lowest_risk
            IN IF groups = {}
               THEN l \notin DOMAIN hi /\ l \notin DOMAIN lo
               ELSE /\ l \in DOMAIN hi /\ l \in DOMAIN lo
                    /\ hi[l].segment \in groups
                    /\ lo[l].segment \in groups
                    /\ \A g \in groups :
                           /\ FGe(rate(hi[l].segment), rate(g))
                           /\ FLe(rate(lo[l].segment), rate(g))
                    /\ hi[l].rate = Round1(rate(hi[l].segment))
                    /\ lo[l].rate = Round1(rate(lo[l].segment))

\* a run of page 2 whose family-status grouping has a riskiest category
\* that is not the first of the index and differs from the safest one
C17_Witness ==
    /\ page = 2 /\ status.code = "ok"
    /\ "Family Status" \in DOMAIN charts.highest_risk
    /\ charts.highest_risk["Family Status"].segment
           # charts.lowest_risk["Family Status"].segment
    /\ charts.highest_risk["Family Status"].segment
           # IdxFirst(kpi.default_rate_family)

\* C18: on the correlation page the correlations with TARGET cover every
\* selected numeric feature except TARGET, each once, sorted descending
\* (undefined ones last); the top-5 positive slice holds the five largest
\* and the top-5 negative slice the five smallest of them (all of them
\* when there are fewer than five); and 'variance explained' is the sum of
\* the absolute values of the defined entries of the two slices, an entry
\* of both slices counted twice.
C18_TargetCorrelations ==
    (page = 5 /\ status.code = "ok") =>
        LET s == kpi.corr_with_target
            pos == kpi.top_5_positive
            neg == kpi.top_5_negative
            features == {"AMT_INCOME_TOTAL", "AMT_CREDIT", "AGE_YEARS",
                         "EMPLOYMENT_YEARS", "AMT_ANNUITY",
                         "CNT_FAM_MEMBERS", "CNT_CHILDREN"} \cap df.cols
            In(t, f) == \E i \in 1..Len(t) : t[i].feature = f
            Count(t, f) == Cardinality({i \in 1..Len(t) : t[i].feature = f})
            NotAbove(a, b) ==
                IsNaN(a.corr) \/ (~IsNaN(b.corr) /\ ~CorrGt(a.corr, b.corr))
            k == IF Len(s) < 5 THEN Len(s) ELSE 5
        IN /\ Len(s) = Cardinality(features)
           /\ \A f \in features : Count(s, f) = 1
           /\ \A i \in 1..Len(s) :
                  s[i].corr = Corr(Col(df, s[i].feature), Col(df, "TARGET"))
           /\ \A i \in 1..Len(s) : \A j \in (i + 1)..Len(s) :
                  NotAbove(s[j], s[i])
           /\ Len(pos) = k /\ Len(neg) = k
           /\ \A i \in 1..k :
                  /\ \E j \in 1..Len(s) : s[j] = pos[i]
                  /\ \E j \in 1..Len(s) : s[j] = neg[i]
           /\ \A f \in features : Count(pos, f) <= 1 /\ Count(neg, f) <= 1
           /\ \A i \in 1..k : \A j \in 1..Len(s) :
                  /\ ~In(pos, s[j].feature) => NotAbove(s[j], pos[i])
                  /\ ~In(neg, s[j].feature) => NotAbove(neg[i], s[j])
           /\ kpi.variance_explained.k = "abssum"
           /\ \A i \in 1..Len(kpi.variance_explained.terms) :
                  \E j \in 1..Len(s) : s[j] = kpi.variance_explained.terms[i]
           /\ \A j \in 1..Len(s) :
                  Count(kpi.variance_explained.terms, s[j].feature)
                      = IF IsNaN(s[j].corr) THEN 0
                        ELSE Count(pos, s[j].feature)
                             + Count(neg, s[j].feature)

\* a run of page 5 over seven features with defined correlations of both
\* signs, so that the two slices differ and share three entries
C18_Witness ==
    /\ page = 5 /\ status.code = "ok"
    /\ Len(kpi.corr_with_target) = 7
    /\ \A i \in 1..7 : ~IsNaN(kpi.corr_with_target[i].corr)
    /\ Sign(kpi.corr_with_target[1].corr.cov) > 0
    /\ Sign(kpi.corr_with_target[7].corr.cov) < 0
    /\ kpi.top_5_positive # kpi.top_5_negative
    /\ Len(kpi.variance_explained.terms) = 10

\* C19: when a selected numeric column of page 5 has zero variance (one
\* value in every row that has one), computing the correlations does not
\* raise: the run ends normally whenever the columns the page requires are
\* in the file; that column's correlation with TARGET is NaN; it is no
\* term of 'variance explained', which stays a number; and it is not
\* counted among the features with |corr| > 0.1.
C19_ZeroVarianceColumn ==
    LET raw == files[src].data
        frame == IF status.code = "ok" THEN df ELSE WithAge(raw)
        selected == {"AMT_INCOME_TOTAL", "AMT_CREDIT", "AGE_YEARS",
                     "EMPLOYMENT_YEARS", "AMT_ANNUITY", "CNT_FAM_MEMBERS",
                     "CNT_CHILDREN"} \cap frame.cols
        ZeroVariance(f) ==
            Cardinality({Col(frame, f)[i] : i \in 1..NRows(frame)} \ {NaN})
                = 1
        s == kpi.corr_with_target
    IN (/\ page = 5
        /\ {"DAYS_BIRTH", "DAYS_EMPLOYED", "TARGET", "AMT_CREDIT",
            "AMT_INCOME_TOTAL"} \subseteq raw.cols
        /\ \E f \in selected : ZeroVariance(f))
       => /\ status.code = "ok"
          /\ kpi.variance_explained.k = "abssum"
          /\ \A f \in selected : ZeroVariance(f) =>
                 /\ \E i \in 1..Len(s) :
                        s[i].feature = f /\ IsNaN(s[i].corr)
                 /\ \A i \in 1..Len(kpi.variance_explained.terms) :
                        kpi.variance_explained.terms[i].feature # f
          /\ kpi.high_corr_features
                 = Cardinality({i \in 1..Len(s) :
                       /\ ~IsNaN(s[i].corr)
                       /\ ~ZeroVariance(s[i].feature)
                       /\ RatLt(1, 100, R2(s[i].corr).n, R2(s[i].corr).d)})

\* a run of page 5 over seven features of which one has zero variance
\* and lies in the top-5 negative slice, while other features are
\* counted as correlated
C19_Witness ==
    /\ page = 5 /\ status.code = "ok"
    /\ Len(kpi.corr_with_target) = 7
    /\ IsNaN(kpi.corr_with_target[7].corr)
    /\ Cardinality({Col(df, kpi.corr_with_target[7].feature)[i] :
                       i \in 1..NRows(df)}) = 1
    /\ ~IsNaN(kpi.corr_with_target[6].corr)
    /\ kpi.top_5_negative[5] = kpi.corr_with_target[7]
    /\ kpi.high_corr_features > 0

\* C20: an upload in any of the accepted formats (CSV, XLS, XLSX) is
\* loaded: the Home run ends normally with the table the file holds, its
\* header row giving the column names.
C20_AcceptedFormatsLoad ==
    (page = 0 /\ uploaded # "") =>
        /\ files[uploaded].fmt \in {"csv", "xls", "xlsx"}
        /\ status.code = "ok"
        /\ df.cols = files[uploaded].data.cols
        /\ df = files[uploaded].data

\* C21 (as stated): clipping a chart's rows at the 0.99 quantile of a
\* column removes at most one row of a hundred-row dataset, and every row
\* it removes has a value strictly greater than the quantile.
C21_ClipRemovesOnlyAbove ==
    charts # NoCharts =>
        LET kept == {charts.income_sample.rows[i].ix :
                        i \in 1..NRows(charts.income_sample)}
            removed == {i \in 1..NRows(df_sample) :
                           df_sample.rows[i].ix \notin kept}
            Above(q) ==
                \A i \in removed :
                    FGt(df_sample.rows[i].c["AMT_INCOME_TOTAL"], q)
        IN /\ Cardinality(removed) <= 1
           /\ Above(Quantile(Col(df, "AMT_INCOME_TOTAL"), 99, 100))

\* C21 (amended): the clip keeps exactly the rows whose value is at most
\* the 0.99 quantile of the full column, in their order: a row it removes
\* has a value strictly greater than the quantile or has no value, and of
\* a hundred-row dataset at most one row that has a value is removed.
C21_ClipRemovesAboveOrMissing ==
    charts # NoCharts =>
        LET value(i) == df_sample.rows[i].c["AMT_INCOME_TOTAL"]
            kept == {charts.income_sample.rows[i].ix :
                        i \in 1..NRows(charts.income_sample)}
            removed == {i \in 1..NRows(df_sample) :
                           df_sample.rows[i].ix \notin kept}
            Clipped(q) ==
                /\ \A i \in removed : IsNaN(value(i)) \/ FGt(value(i), q)
                /\ \A i \in 1..NRows(df_sample) :
                       i \notin removed => FLe(value(i), q)
        IN /\ \A i \in 1..NRows(charts.income_sample) :
                  \E j \in 1..NRows(df_sample) :
                      charts.income_sample.rows[i] = df_sample.rows[j]
           /\ Clipped(Quantile(Col(df, "AMT_INCOME_TOTAL"), 99, 100))
           /\ Cardinality({i \in removed : ~IsNaN(value(i))}) <= 1

\* a hundred-row dataset with one outlier and missing values, clipped: the
\* outlier and the rows without a value are gone
C21_Witness ==
    /\ charts # NoCharts
    /\ NRows(df) = ClipRows
    /\ NRows(charts.income_sample) = ClipRows - 3
    /\ \E i \in 1..NRows(df) : IsNaN(df.rows[i].c["AMT_INCOME_TOTAL"])

\* C22: in the correlation insight the feature named as having the
\* strongest negative correlation is one whose correlation with TARGET is
\* the minimum over all features, the one named as strongest positive is
\* one with the maximum, and the r values shown are that minimum and
\* maximum.
C22_StrongestDrivers ==
    (page = 5 /\ status.code = "ok") =>
        LET s == kpi.corr_with_target
            defined == {i \in 1..Len(s) : ~IsNaN(s[i].corr)}
            Names(line, i) ==
                /\ line.feature = FeatureName(s[i].feature)
                /\ line.r = s[i].corr
        IN defined # {} =>
              /\ \E i \in defined :
                    /\ Names(kpi.strongest_positive, i)
                    /\ \A j \in defined : ~CorrGt(s[j].corr, s[i].corr)
              /\ \E i \in defined :
                    /\ Names(kpi.strongest_negative, i)
                    /\ \A j \in defined : ~CorrGt(s[i].corr, s[j].corr)

\* C23: every feature listed under "Top 5 Positive Correlations" has a
\* correlation with TARGET greater than 0 and every feature listed under
\* "Top 5 Negative Correlations" one less than 0; no feature is in both
\* lists and none is counted twice in 'variance explained'.
C23_SlicesBySign ==
    (page = 5 /\ status.code = "ok") =>
        LET pos == kpi.top_5_positive
            neg == kpi.top_5_negative
            terms == kpi.variance_explained.terms
        IN /\ \A i \in 1..Len(pos) :
                  ~IsNaN(pos[i].corr) /\ Sign(pos[i].corr.cov) > 0
           /\ \A i \in 1..Len(neg) :
                  ~IsNaN(neg[i].corr) /\ Sign(neg[i].corr.cov) < 0
           /\ \A i \in 1..Len(pos) : \A j \in 1..Len(neg) :
                  pos[i].feature # neg[j].feature
           /\ \A i \in 1..Len(terms) : \A j \in 1..Len(terms) :
                  terms[i].feature = terms[j].feature => i = j

\* C24: the age insight reads "older ... less risky" exactly when the
\* correlation of AGE_YEARS with TARGET is negative and "younger ... more
\* risky" in every other case (positive, zero or undefined); the
\* employment insight reads "longer ... reduces" exactly when the
\* correlation of EMPLOYMENT_YEARS with TARGET is negative and "shorter
\* ... increases" otherwise.
C24_DirectionPhrases ==
    (page = 5 /\ status.code = "ok") =>
        LET age == Corr(Col(df, "AGE_YEARS"), Col(df, "TARGET"))
            emp == Corr(Col(df, "EMPLOYMENT_YEARS"), Col(df, "TARGET"))
            Negative(r) == ~IsNaN(r) /\ r.cov.n < 0
        IN /\ kpi.age_insight
                  = IF Negative(age) THEN [who |-> "older", risk |-> "less"]
                    ELSE [who |-> "younger", risk |-> "more"]
           /\ kpi.employment_insight
                  = IF Negative(emp)
                    THEN [history |-> "longer", effect |-> "reduces"]
                    ELSE [history |-> "shorter", effect |-> "increases"]

\* a run of page 5 where age correlates negatively with default while the
\* employment correlation is undefined
C24_Witness ==
    /\ page = 5 /\ status.code = "ok"
    /\ kpi.age_insight.who = "older"
    /\ IsNaN(kpi.corr_employment_target)
    /\ kpi.employment_insight.history = "shorter"

\* C25: with the thresholds DTI = 0.4 and LTI = 5.0 the "above" default
\* rate is taken over exactly the rows whose ratio is greater than the
\* threshold and the "below" rate over exactly the rows whose ratio is at
\* most the threshold; a row whose ratio is defined is in exactly one of
\* the two groups, a row whose ratio is undefined (a missing operand or an
\* income of zero) is in neither.
C25_ThresholdGroups ==
    (page = 4 /\ status.code = "ok") =>
        LET rows == 1..NRows(df)
            Defined(i, a) ==
                /\ IsNum(df.rows[i].c[a])
                /\ IsNum(df.rows[i].c["AMT_INCOME_TOTAL"])
                /\ df.rows[i].c["AMT_INCOME_TOTAL"].n # 0
            ratio(i, a) ==
                FDiv(df.rows[i].c[a], df.rows[i].c["AMT_INCOME_TOTAL"])
            above(a, t) ==
                [i \in rows |-> Defined(i, a) /\ FGt(ratio(i, a), t)]
            below(a, t) ==
                [i \in rows |-> Defined(i, a) /\ FLe(ratio(i, a), t)]
            rate(mask) == Pct(Mean(Col(Where(df, mask), "TARGET")))
        IN /\ \A i \in rows :
                  /\ Defined(i, "AMT_CREDIT") =>
                         above("AMT_CREDIT", Num(5))[i]
                             # below("AMT_CREDIT", Num(5))[i]
           /\ kpi.high_lti_default_rate = rate(above("AMT_CREDIT", Num(5)))
           /\ kpi.low_lti_default_rate = rate(below("AMT_CREDIT", Num(5)))
           /\ "AMT_ANNUITY" \in df.cols =>
                  /\ kpi.high_dti_default_rate
                         = rate(above("AMT_ANNUITY", Frac(2, 5)))
                  /\ kpi.low_dti_default_rate
                         = rate(below("AMT_ANNUITY", Frac(2, 5)))

C27_FiltersLeaveKpis ==
    /\ [](page = 5 =>
            LET run == Page5(files[src].data, sel)
            IN /\ status.code = run.status
               /\ df = run.df /\ df_sample = run.df_sample
               /\ kpi = run.kpi /\ charts = run.charts)
    /\ [][(page = 5 /\ page' = 5 /\ status.code = "ok") =>
             /\ status' = status
             /\ df' = df /\ df_sample' = df_sample
             /\ kpi' = kpi
             /\ charts'.jittered_data = charts.jittered_data]_vars

\* page 5 under a selection that leaves some but not all rows: the
\* default rates by gender differ from those of the full dataset
C27_Witness ==
    /\ page = 5 /\ status.code = "ok"
    /\ sel.education # "All"
    /\ NRows(charts.filtered_df) > 0
    /\ NRows(charts.filtered_df) < NRows(df)
    /\ charts.gender_defaults # SegmentRate(df, "CODE_GENDER")
    /\ Len(kpi.corr_with_target) = 7

\* C28: on page 5, for any gender and education selections, the filtered
\* dataset holds exactly the rows of the full dataset, in their order,
\* whose value equals every selection other than "All" (a missing value
\* equals no selection); "All" for both gives the full dataset; applying
\* the two filters in the other order gives the same frame; and each
\* selection is "All" or one of the distinct values of the full dataset's
\* column.
C28_FilterConjunction ==
    (page = 5 /\ status.code = "ok") =>
        LET Matches(row, col, choice) ==
                \/ choice = "All"
                \/ /\ col \in df.cols
                   /\ choice # NaCat
                   /\ row.c[col] = choice
            Match(row) ==
                /\ Matches(row, "CODE_GENDER", sel.gender)
                /\ Matches(row, "NAME_EDUCATION_TYPE", sel.education)
            Offered(col, choice) ==
                \/ choice = "All"
                \/ /\ col \in df.cols
                   /\ \E i \in 1..NRows(df) : df.rows[i].c[col] = choice
        IN /\ charts.filtered_df.cols = df.cols
           /\ charts.filtered_df.rows = SelectSeq(df.rows, Match)
           /\ sel = NoSelection => charts.filtered_df = df
           /\ charts.filtered_df
                  = FilterBy(FilterBy(df, "NAME_EDUCATION_TYPE",
                                      sel.education),
                             "CODE_GENDER", sel.gender)
           /\ Offered("CODE_GENDER", sel.gender)
           /\ Offered("NAME_EDUCATION_TYPE", sel.education)

\* offered values of both filters are selected, applicants have each of
\* the two values, and no applicant has both: zero rows are left
C28_Witness ==
    /\ page = 5 /\ status.code = "ok"
    /\ sel.gender \notin {"All", NaCat}
    /\ sel.education \notin {"All", NaCat}
    /\ NRows(charts.filtered_df) = 0
    /\ NRows(FilterBy(df, "CODE_GENDER", sel.gender)) > 0
    /\ NRows(FilterBy(df, "NAME_EDUCATION_TYPE", sel.education)) > 0

\* C29: whenever page 3 or page 5 has run on a dataset with DAYS_EMPLOYED,
\* the applicants page 5 treats as employed (EMPLOYMENT_YEARS > 0) are
\* exactly the applicants page 3 treats as currently working
\* (DAYS_EMPLOYED < 0).
C29_EmployedIsWorking ==
    (page \in {3, 5} /\ status.code = "ok"
        /\ {"DAYS_EMPLOYED", "EMPLOYMENT_YEARS"} \subseteq df.cols) =>
        ColGt(df, "EMPLOYMENT_YEARS", Num(0))
            = ColLt(df, "DAYS_EMPLOYED", Num(0))

\* C30: after any page has run, df_sample names the object df names
\* exactly when the dataset has no more rows than the page's ceiling (and
\* then the two frames are the same), and the full dataset is what the top
\* of the script made of the loaded file: the file's columns with their
\* values, plus the page's derived columns, and none of the helper columns
\* Default_Status, EMPLOYMENT_YEARS_JITTERED, TARGET_JITTERED, which are in
\* the frames handed to the charts.
C30_ChartsLeaveDataset ==
    (page \in 1..5 /\ status.code = "ok") =>
        LET raw == files[src].data
            ceiling == IF page = 5 THEN CorrCeiling ELSE DisplayCeiling
            derived ==
                CASE page = 1 -> {"AGE_YEARS"}
                  [] page \in {2, 3, 5} -> {"AGE_YEARS", "EMPLOYMENT_YEARS"}
                  [] page = 4 ->
                       {"LTI"} \cup (IF "AMT_ANNUITY" \in raw.cols
                                     THEN {"DTI"} ELSE {})
            helpers == {"Default_Status", "EMPLOYMENT_YEARS_JITTERED",
                        "TARGET_JITTERED"}
        IN /\ df_sample_is_df = (NRows(df) <= ceiling)
           /\ df_sample_is_df => df_sample = df
           /\ df.cols = raw.cols \cup derived
           /\ df.cols \cap helpers = {}
           /\ df_sample.cols \cap helpers = {}
           /\ NRows(df) = NRows(raw)
           /\ \A i \in 1..NRows(df) : \A c \in raw.cols :
                  df.rows[i].c[c] = raw.rows[i].c[c]
           /\ page = 2 => \A ch \in {"income_filtered", "credit_filtered",
                                     "employment_filtered"} :
                              charts[ch].cols
                                  = df_sample.cols \cup {"Default_Status"}
           /\ page = 3 => charts.age_sample.cols
                              = df_sample.cols \cup {"Default_Status"}
           /\ page = 4 => "Default_Status" \in charts.income_sample.cols
           /\ page = 5 => charts.jittered_data.cols
                              = df_sample.cols
                                    \cup {"EMPLOYMENT_YEARS_JITTERED",
                                          "TARGET_JITTERED"}

\* page 3 has run on a dataset small enough to be shown whole: df_sample
\* is df itself, and the age chart's frame has got its Default_Status
C30_Witness ==
    /\ page = 3 /\ status.code = "ok"
    /\ df_sample_is_df
    /\ NRows(df) > 0
    /\ "Default_Status" \in charts.age_sample.cols
    /\ \E i \in 1..NRows(df) :
           charts.age_sample.rows[i].c["Default_Status"] = "Yes"

====
